---------------------------- MODULE Spec2Model ----------------------------
(***************************************************************************)
(* Model of the chicha-ip-proxy forwarding engine: one process relaying    *)
(* one route, either TCP (pkg/proxy/tcp.go) or UDP (the session manager    *)
(* with failure events).  Goroutines are processes with a program counter, *)
(* channels are bounded sequences, sockets are open/closed flags plus the  *)
(* record of what was written through them.                                *)
(***************************************************************************)
EXTENDS Integers, Sequences, FiniteSets, TLC

\* ------------------------------------------------------------------------
\* Bounds of the model
\* ------------------------------------------------------------------------
NumClients == 2       \* distinct UDP client addresses
MaxDatagrams == 2     \* datagrams the read loop receives in a run over MaxTime
BurstDatagrams == 3   \* the same in a run too short for the clock to advance
MaxReplies == 1       \* datagrams the remote target sends back in one run
BurstReplies == 2     \* the same in a run in which every client is answered
MaxTime == 90         \* seconds of wall clock the run covers
MaxFaults == 1        \* I/O errors on open sockets in one run
Step == 30            \* largest advance of the clock in one step, seconds
MsgChanCap == 2       \* make(chan udpMessage, runtime.NumCPU()*16), scaled
OutboundCap == 2      \* make(chan []byte, 32), scaled
EventCap == 1         \* make(chan sessionEvent, 128), scaled
MaxConns == 2         \* TCP connections accepted in one run
MaxBytes == 2         \* bytes each TCP peer sends when one connection is relayed
NumWorkers == 1       \* runtime.NumCPU(): size of the TCP worker pool
MaxFlagLen == 7       \* longest -routes flag value, in characters
MaxRotations == 3     \* calls of rotateOnce in one run
MaxLogSize == 3       \* most bytes the logger writes to one file in one run
SizeLimit == 2        \* maxSizeBytes, the size from which a size check rotates

\* ------------------------------------------------------------------------
\* Program constants (seconds)
\* ------------------------------------------------------------------------
CleanupInterval == 30
IdleTimeout == 60
ReadDeadline == 5

VARIABLES
    proto,          \* protocol of the route this process relays
    listen,         \* "init" | "ok" | "failed": the route's listening socket
    alive,          \* FALSE once the process has exited
    logged,         \* log lines the last step wrote to the logger
    budget,         \* what the environment does in this run: [datagrams, horizon, replies, ...]
    \* --- UDP ---
    now,            \* wall clock, seconds
    nextTick,       \* when cleanupTicker fires next
    tickPending,    \* a tick waits in cleanupTicker.C (capacity 1)
    rl,             \* read loop: [pc, buf, msg]; buf is the receive buffer
    nread,          \* datagrams read so far from each client
    msgChan,        \* ingestion channel
    mgr,            \* manager: [pc, msg]; pc is "select" or "resolve"
    sessions,       \* the manager's map: key -> session pointer (sid)
    nsess,          \* sessions allocated so far
    sess,           \* heap of udpSession structs, by sid
    outbound,       \* session.outbound buffers, by sid
    obClosed,       \* close(session.outbound) happened, by sid
    connOpen,       \* session.remoteConn is open, by sid
    fwd,            \* forwardUDPPackets goroutines, by sid: [pc, data]
    rep,            \* relayUDPReplies goroutines, by sid: [pc, data, deadline]
    sessionEvents,  \* failure-event channel
    nreplies,       \* datagrams the remote has sent so far
    nfaults,        \* I/O errors on open sockets so far
    toRemote,       \* per client: what was written to the remote, in order
    toClient,       \* per client: replies written through the shared socket
    \* --- TCP ---
    acc,            \* accept loop: [pc, conn]
    nacc,           \* connections accepted so far
    worker,         \* handleTCPConnections goroutines: [pc, conn]
    h,              \* per connection goroutine: [pc, dials, closedLogs]
    done,           \* per connection: signals buffered in the done channel
    cp,             \* copy tasks, per connection and direction: [pc, buf, nread]
    wrote,          \* per connection and direction: bytes written to the destination
    cliSock,        \* the relay's socket to the client: "none" | "open" | "closed"
    srvSock,        \* the relay's socket to the remote: "none" | "open" | "closed"
    client,         \* the client peer: [sent, open]
    remote,         \* the remote peer: [kind, sent, open]
    \* --- configuration ---
    routesFlag,     \* the value of the -routes flag, a sequence of characters
    ret,            \* what ParseRoutes returned: [called, routes, err]
    \* --- log rotation ---
    handles,        \* the *os.File values made so far: [st, file], st open or closed
    sizes,          \* the size of each file made under the log file's path
    pathFile,       \* the file the path logFile names at present
    currentFile,    \* the handle RotateLogs keeps for Stat and for the next rotation
    loggerOut,      \* the handle the logger writes to (logger.SetOutput)
    nrot            \* rotateOnce calls so far

udpVars == <<now, nextTick, tickPending, rl, nread, msgChan, mgr, sessions, nsess,
             sess, outbound, obClosed, connOpen, fwd, rep, sessionEvents,
             nreplies, toRemote, toClient>>

tcpVars == <<acc, nacc, worker, h, done, cp, wrote, cliSock, srvSock, client, remote>>

parseVars == <<routesFlag, ret>>

logVars == <<handles, sizes, pathFile, currentFile, loggerOut, nrot>>

Clients == 1..NumClients
Conns == 1..MaxConns
Workers == 1..NumWorkers
Dirs == {"c2s", "s2c"}
Handles == 1..(MaxRotations + 1)   \* SetupLogger opens one, every rotateOnce one more
Max(a, b) == IF a > b THEN a ELSE b
Sids == 1..Max(MaxDatagrams, BurstDatagrams)   \* a session is created by a datagram

\* The runs explored: a burst of datagrams within one instant, fewer datagrams
\* spread over MaxTime seconds, or a short run in which the remote answers more
\* than once.
UDPScenarios == {[datagrams |-> BurstDatagrams, horizon |-> 0, replies |-> MaxReplies,
                  conns |-> 0, bytes |-> 0],
                 [datagrams |-> MaxDatagrams, horizon |-> MaxTime, replies |-> MaxReplies,
                  conns |-> 0, bytes |-> 0],
                 [datagrams |-> MaxDatagrams, horizon |-> 0, replies |-> BurstReplies,
                  conns |-> 0, bytes |-> 0]}

\* One connection with MaxBytes bytes each way, or MaxConns connections with a
\* byte less.
TCPScenarios == {[datagrams |-> 0, horizon |-> 0, replies |-> 0, conns |-> 1, bytes |-> MaxBytes],
                 [datagrams |-> 0, horizon |-> 0, replies |-> 0, conns |-> MaxConns, bytes |-> MaxBytes - 1]}
NoMsg == [data |-> 0, addr |-> [ip |-> 0, port |-> 0]]

Min(a, b) == IF a < b THEN a ELSE b

\* The source address ReadFrom reports for client c: one host, one port each.
ClientAddr(c) == [ip |-> 10, port |-> 5000 + c]

\* net.Addr.String(): "ip:port", held as the pair of its two printed parts.
AddrString(a) == <<a.ip, a.port>>

ClientOf(addr) == CHOOSE c \in Clients : ClientAddr(c) = addr

\* ------------------------------------------------------------------------
\* StartUDPProxy: bind, then the read loop
\* ------------------------------------------------------------------------
Running(p) == alive /\ proto = p /\ listen = "ok"

UDPBind ==
    /\ alive /\ proto = "udp" /\ listen = "init"
    /\ \/ /\ listen' = "ok"
          /\ logged' = {"UDP proxy started"}
          /\ alive' = alive
       \/ /\ listen' = "failed"            \* logger.Fatalf: log, then os.Exit(1)
          /\ logged' = {"Failed to start UDP proxy"}
          /\ alive' = FALSE
    /\ UNCHANGED <<proto, budget, udpVars, nfaults, tcpVars, parseVars, logVars>>

procVars == <<proto, listen, alive, budget, tcpVars, parseVars, logVars>>
udpTasks == <<procVars, mgr>>   \* what a step of a UDP task other than the manager's resolve leaves alone
clockVars == <<now, nextTick, tickPending>>
tableVars == <<sessions, nsess, sess, outbound, obClosed, connOpen>>
wireVars == <<nreplies, nfaults, toRemote, toClient>>

RECURSIVE SumOver(_, _)
SumOver(f, S) == IF S = {} THEN 0
                 ELSE LET x == CHOOSE y \in S : TRUE IN f[x] + SumOver(f, S \ {x})

\* Mutant of ReadLoopRead: the message holds a slice of the receive buffer, and
\* so do the messages made before: every payload still queued shows the bytes
\* of the datagram read last.
ReadLoopReadAliased ==
    /\ Running("udp") /\ rl.pc = "read"
    /\ SumOver(nread, Clients) < budget.datagrams
    /\ \E c \in Clients :
        /\ nread' = [nread EXCEPT ![c] = @ + 1]
        /\ rl' = [pc |-> "send", buf |-> nread[c] + 1,
                  msg |-> [data |-> nread[c] + 1, addr |-> ClientAddr(c)]]
        /\ msgChan' = [n \in DOMAIN msgChan |-> [msgChan[n] EXCEPT !.data = nread[c] + 1]]
        /\ outbound' = [i \in Sids |->
                          [n \in DOMAIN outbound[i] |-> nread[c] + 1]]
    /\ logged' = {}
    /\ UNCHANGED <<udpTasks, clockVars, sessions, nsess, sess, obClosed, connOpen,
                   fwd, rep, sessionEvents, wireVars>>

\* conn.ReadFrom(buffer) returned a datagram in the reused receive buffer
\* (rl.buf); payloadCopy is a copy of it in a buffer of its own.  The payload
\* of the k-th datagram of a client is the number k.
ReadLoopRead ==
    /\ Running("udp") /\ rl.pc = "read"
    /\ SumOver(nread, Clients) < budget.datagrams
    /\ \E c \in Clients :
        /\ nread' = [nread EXCEPT ![c] = @ + 1]
        /\ rl' = [pc |-> "send", buf |-> nread[c] + 1,
                  msg |-> [data |-> nread[c] + 1, addr |-> ClientAddr(c)]]
    /\ logged' = {}
    /\ UNCHANGED <<udpTasks, clockVars, msgChan, tableVars, fwd, rep,
                   sessionEvents, wireVars>>

\* Mutant of ReadLoopSend: a send that gives up when the channel is full
\* (select with a default branch) and drops the datagram.
ReadLoopSendOrDrop ==
    /\ Running("udp") /\ rl.pc = "send"
    /\ msgChan' = IF Len(msgChan) < MsgChanCap THEN Append(msgChan, rl.msg) ELSE msgChan
    /\ rl' = [pc |-> "read", buf |-> rl.buf, msg |-> NoMsg]
    /\ logged' = {}
    /\ UNCHANGED <<udpTasks, clockVars, nread, tableVars, fwd, rep,
                   sessionEvents, wireVars>>

\* msgChan <- udpMessage{...}: blocks while the channel is full.
ReadLoopSend ==
    /\ Running("udp") /\ rl.pc = "send"
    /\ Len(msgChan) < MsgChanCap
    /\ msgChan' = Append(msgChan, rl.msg)
    /\ rl' = [pc |-> "read", buf |-> rl.buf, msg |-> NoMsg]
    /\ logged' = {}
    /\ UNCHANGED <<udpTasks, clockVars, nread, tableVars, fwd, rep,
                   sessionEvents, wireVars>>

\* ------------------------------------------------------------------------
\* manageUDPSessions
\* ------------------------------------------------------------------------
\* Mutant of SessionKey: the key is the host without the port.
SessionKeyHostOnly(addr) == <<addr.ip>>

\* sessionKey := msg.addr.String()
SessionKey(addr) == AddrString(addr)

\* Mutant of CanSend: the send never takes the default branch.
CanSendAlways(q) == TRUE

\* select { case session.outbound <- msg.data: ... default: ... }: the send
\* case is ready while the buffer has room.
CanSend(q) == Len(q) < OutboundCap

Enqueue(q, data) == IF CanSend(q) THEN Append(q, data) ELSE q

\* Mutant of IsIdle: a session is idle from 60 seconds on.
IsIdleFrom(s, t) == t - s.lastActive >= IdleTimeout

\* Mutant of IsIdle: the threshold is one sweep interval too long.
IsIdleLate(s, t) == t - s.lastActive > IdleTimeout + CleanupInterval

\* time.Since(session.lastActive) > 60*time.Second
IsIdle(s, t) == t - s.lastActive > IdleTimeout

\* Mutant of Evict: the entry is left in the table.
EvictKeepEntry(K) ==
    /\ obClosed' = [i \in Sids |-> obClosed[i] \/ \E k \in K : sessions[k] = i]
    /\ connOpen' = [i \in Sids |-> connOpen[i] /\ ~ \E k \in K : sessions[k] = i]
    /\ sessions' = sessions

\* Mutant of Evict: the remote socket of the session is left open.
EvictLeavesSocket(K) ==
    /\ obClosed' = [i \in Sids |-> obClosed[i] \/ \E k \in K : sessions[k] = i]
    /\ connOpen' = connOpen
    /\ sessions' = [k \in DOMAIN sessions \ K |-> sessions[k]]

\* close(session.outbound); session.remoteConn.Close(); delete(sessions, key)
\* for every key of K.
Evict(K) ==
    /\ obClosed' = [i \in Sids |-> obClosed[i] \/ \E k \in K : sessions[k] = i]
    /\ connOpen' = [i \in Sids |-> connOpen[i] /\ ~ \E k \in K : sessions[k] = i]
    /\ sessions' = [k \in DOMAIN sessions \ K |-> sessions[k]]

\* case msg := <-msgChan, for a client that has a session.
ManagerMsgKnown ==
    /\ Running("udp") /\ mgr.pc = "select" /\ msgChan # <<>>
    /\ LET msg == Head(msgChan)
           key == SessionKey(msg.addr)
       IN /\ key \in DOMAIN sessions
          /\ LET sid == sessions[key]
                 q == Enqueue(outbound[sid], msg.data)
             IN /\ sess' = [sess EXCEPT ![sid].lastActive = now]
                /\ outbound' = [outbound EXCEPT ![sid] = q]
                /\ logged' = IF CanSend(outbound[sid]) THEN {} ELSE {"Dropping UDP packet"}
    /\ msgChan' = Tail(msgChan)
    /\ UNCHANGED <<udpTasks, clockVars, rl, nread, sessions, nsess, obClosed,
                   connOpen, fwd, rep, sessionEvents, wireVars>>

\* Mutant of ManagerMsgNew: a failed resolve or dial leaves an entry for the
\* client in the table, with no socket and no task behind it.
ManagerMsgNewKeepsFailed ==
    /\ Running("udp") /\ msgChan # <<>>
    /\ LET msg == Head(msgChan)
           key == SessionKey(msg.addr)
           sid == nsess + 1
       IN /\ key \notin DOMAIN sessions
          /\ nsess' = sid
          /\ sess' = [sess EXCEPT ![sid] =
                        [clientAddr |-> msg.addr, id |-> key, lastActive |-> now]]
          /\ sessions' = [k \in DOMAIN sessions \cup {key} |->
                            IF k = key THEN sid ELSE sessions[k]]
          /\ \/ /\ logged' = {"Failed to resolve UDP target"}
                /\ UNCHANGED <<outbound, obClosed, connOpen, fwd, rep>>
             \/ /\ logged' = {"Failed to dial UDP target"}
                /\ UNCHANGED <<outbound, obClosed, connOpen, fwd, rep>>
             \/ /\ fwd' = [fwd EXCEPT ![sid] = [pc |-> "recv", data |-> 0]]
                /\ rep' = [rep EXCEPT ![sid] =
                             [pc |-> "read", data |-> 0, deadline |-> now + ReadDeadline]]
                /\ outbound' = [outbound EXCEPT ![sid] = Enqueue(<<>>, msg.data)]
                /\ logged' = {}
                /\ UNCHANGED <<obClosed, connOpen>>
    /\ msgChan' = Tail(msgChan)
    /\ UNCHANGED <<udpTasks, clockVars, rl, nread, sessionEvents, wireVars>>

\* Mutant of ManagerMsgNew: the datagram that made the session is not put on
\* the session's queue.
ManagerMsgNewDropsFirst ==
    /\ Running("udp") /\ msgChan # <<>>
    /\ LET msg == Head(msgChan)
           key == SessionKey(msg.addr)
       IN /\ key \notin DOMAIN sessions
          /\ \/ /\ logged' = {"Failed to resolve UDP target"}
                /\ UNCHANGED <<tableVars, fwd, rep>>
             \/ /\ logged' = {"Failed to dial UDP target"}
                /\ UNCHANGED <<tableVars, fwd, rep>>
             \/ LET sid == nsess + 1 IN
                /\ nsess' = sid
                /\ sess' = [sess EXCEPT ![sid] =
                              [clientAddr |-> msg.addr, id |-> key, lastActive |-> now]]
                /\ sessions' = [k \in DOMAIN sessions \cup {key} |->
                                  IF k = key THEN sid ELSE sessions[k]]
                /\ fwd' = [fwd EXCEPT ![sid] = [pc |-> "recv", data |-> 0]]
                /\ rep' = [rep EXCEPT ![sid] =
                             [pc |-> "read", data |-> 0, deadline |-> now + ReadDeadline]]
                /\ outbound' = [outbound EXCEPT ![sid] = <<>>]
                /\ logged' = {}
                /\ UNCHANGED <<obClosed, connOpen>>
    /\ msgChan' = Tail(msgChan)
    /\ UNCHANGED <<udpTasks, clockVars, rl, nread, sessionEvents, wireVars>>

\* case msg := <-msgChan, for an unseen client: resolve, dial, create, enqueue.
ManagerMsgNew ==
    /\ Running("udp") /\ mgr.pc = "select" /\ msgChan # <<>>
    /\ LET msg == Head(msgChan)
           key == SessionKey(msg.addr)
       IN /\ key \notin DOMAIN sessions
          /\ \/ /\ logged' = {"Failed to resolve UDP target"}      \* continue
                /\ UNCHANGED <<tableVars, fwd, rep>>
             \/ /\ logged' = {"Failed to dial UDP target"}         \* continue
                /\ UNCHANGED <<tableVars, fwd, rep>>
             \/ LET sid == nsess + 1 IN
                /\ nsess' = sid
                /\ sess' = [sess EXCEPT ![sid] =
                              [clientAddr |-> msg.addr, id |-> key, lastActive |-> now]]
                /\ sessions' = [k \in DOMAIN sessions \cup {key} |->
                                  IF k = key THEN sid ELSE sessions[k]]
                /\ fwd' = [fwd EXCEPT ![sid] = [pc |-> "recv", data |-> 0]]
                /\ rep' = [rep EXCEPT ![sid] =
                             [pc |-> "read", data |-> 0, deadline |-> now + ReadDeadline]]
                /\ outbound' = [outbound EXCEPT ![sid] = Enqueue(<<>>, msg.data)]
                /\ logged' = {}
                /\ UNCHANGED <<obClosed, connOpen>>
    /\ msgChan' = Tail(msgChan)
    /\ UNCHANGED <<udpTasks, clockVars, rl, nread, sessionEvents, wireVars>>

\* The same handler in two steps, for the runs in which the target is a host
\* name: net.ResolveUDPAddr asks the resolver and returns when it has answered.
\* ManagerResolve is the handler up to that call: the datagram is off the
\* channel and the manager goroutine waits inside the call.
ManagerResolve ==
    /\ Running("udp") /\ mgr.pc = "select" /\ msgChan # <<>>
    /\ SessionKey(Head(msgChan).addr) \notin DOMAIN sessions
    /\ mgr' = [pc |-> "resolve", msg |-> Head(msgChan)]
    /\ msgChan' = Tail(msgChan)
    /\ logged' = {}
    /\ UNCHANGED <<procVars, clockVars, rl, nread, tableVars, fwd, rep,
                   sessionEvents, wireVars>>

\* ManagerResolved is the rest of the handler, from the return of
\* net.ResolveUDPAddr on: error and continue, or dial, create, enqueue.
ManagerResolved ==
    /\ Running("udp") /\ mgr.pc = "resolve"
    /\ LET msg == mgr.msg
           key == SessionKey(msg.addr)
       IN \/ /\ logged' = {"Failed to resolve UDP target"}
             /\ UNCHANGED <<tableVars, fwd, rep>>
          \/ /\ logged' = {"Failed to dial UDP target"}
             /\ UNCHANGED <<tableVars, fwd, rep>>
          \/ LET sid == nsess + 1 IN
             /\ nsess' = sid
             /\ sess' = [sess EXCEPT ![sid] =
                           [clientAddr |-> msg.addr, id |-> key, lastActive |-> now]]
             /\ sessions' = [k \in DOMAIN sessions \cup {key} |->
                               IF k = key THEN sid ELSE sessions[k]]
             /\ fwd' = [fwd EXCEPT ![sid] = [pc |-> "recv", data |-> 0]]
             /\ rep' = [rep EXCEPT ![sid] =
                          [pc |-> "read", data |-> 0, deadline |-> now + ReadDeadline]]
             /\ outbound' = [outbound EXCEPT ![sid] = Enqueue(<<>>, msg.data)]
             /\ logged' = {}
             /\ UNCHANGED <<obClosed, connOpen>>
    /\ mgr' = [pc |-> "select", msg |-> NoMsg]
    /\ UNCHANGED <<procVars, clockVars, rl, nread, msgChan, sessionEvents, wireVars>>

\* case <-cleanupTicker.C
ManagerSweep ==
    /\ Running("udp") /\ mgr.pc = "select" /\ tickPending
    /\ LET K == {k \in DOMAIN sessions : IsIdle(sess[sessions[k]], now)}
       IN /\ Evict(K)
          /\ logged' = IF K = {} THEN {} ELSE {"Closed idle UDP session"}
    /\ tickPending' = FALSE
    /\ UNCHANGED <<udpTasks, now, nextTick, rl, nread, msgChan, nsess, sess,
                   outbound, fwd, rep, sessionEvents, wireVars>>

\* Mutant of ManagerEvent: the event is taken off the channel and logged, the
\* session is left as it is.
ManagerEventLogOnly ==
    /\ Running("udp") /\ sessionEvents # <<>>
    /\ LET ev == Head(sessionEvents)
       IN logged' = IF ev.key \in DOMAIN sessions
                    THEN {"Closed UDP session", ev.reason} ELSE {}
    /\ sessionEvents' = Tail(sessionEvents)
    /\ UNCHANGED <<udpTasks, clockVars, rl, nread, msgChan, tableVars, fwd, rep, wireVars>>

\* case event := <-sessionEvents
ManagerEvent ==
    /\ Running("udp") /\ mgr.pc = "select" /\ sessionEvents # <<>>
    /\ LET ev == Head(sessionEvents)
       IN IF ev.key \in DOMAIN sessions
          THEN /\ Evict({ev.key})
               /\ logged' = {"Closed UDP session", ev.reason}
          ELSE /\ UNCHANGED <<sessions, obClosed, connOpen>>
               /\ logged' = {}
    /\ sessionEvents' = Tail(sessionEvents)
    /\ UNCHANGED <<udpTasks, clockVars, rl, nread, msgChan, nsess, sess,
                   outbound, fwd, rep, wireVars>>

\* The wall clock moves on, at most to the instant the ticker fires next; the
\* manager serves a pending tick before the clock moves again.  A pending Read
\* whose deadline has passed has its deadline set to 0: it returns a timeout when
\* the replier runs next.
AdvanceTime ==
    /\ Running("udp") /\ ~tickPending /\ now < budget.horizon
    /\ now' = Min(now + Step, nextTick)
    /\ tickPending' = (now' = nextTick)
    /\ nextTick' = IF now' = nextTick THEN nextTick + CleanupInterval ELSE nextTick
    /\ rep' = [i \in Sids |->
                 IF rep[i].pc = "read" /\ now' >= rep[i].deadline
                 THEN [rep[i] EXCEPT !.deadline = 0] ELSE rep[i]]
    /\ logged' = {}
    /\ UNCHANGED <<udpTasks, rl, nread, msgChan, tableVars, fwd,
                   sessionEvents, wireVars>>

\* ------------------------------------------------------------------------
\* notifyUDPSessionFailure: a non-blocking send of {key: session.id, reason}.
\* The field sid is not in the code's event: it records which session's task
\* sent it.
\* ------------------------------------------------------------------------
\* Mutant of EventRoom: the send case is taken whatever the channel holds.
EventRoomAlways(ch) == TRUE

\* select { case sessionEvents <- ...: default: }: the send is ready while the
\* buffer has room.
EventRoom(ch) == Len(ch) < EventCap

\* An I/O call fails: on a closed socket always, on an open one while the run's
\* budget of such errors lasts.
Fault(open) ==
    IF open THEN nfaults < MaxFaults /\ nfaults' = nfaults + 1
    ELSE nfaults' = nfaults

Notify(sid, reason, lines) ==
    IF EventRoom(sessionEvents)
    THEN /\ sessionEvents' = Append(sessionEvents,
                                [key |-> sess[sid].id, reason |-> reason, sid |-> sid])
         /\ logged' = lines
    ELSE /\ sessionEvents' = sessionEvents
         /\ logged' = lines \cup {"Session event queue full"}

\* ------------------------------------------------------------------------
\* forwardUDPPackets
\* ------------------------------------------------------------------------
\* Mutant of Dequeue: the receive takes the payload buffered last.
DequeueNewest(q) == [data |-> q[Len(q)], rest |-> SubSeq(q, 1, Len(q) - 1)]

\* A receive from the buffered channel: the payload buffered first.
Dequeue(q) == [data |-> Head(q), rest |-> Tail(q)]

\* for data := range session.outbound: the next buffered payload.
FwdRecv(sid) ==
    /\ Running("udp") /\ fwd[sid].pc = "recv"
    /\ outbound[sid] # <<>>
    /\ fwd' = [fwd EXCEPT ![sid] = [pc |-> "write", data |-> Dequeue(outbound[sid]).data]]
    /\ outbound' = [outbound EXCEPT ![sid] = Dequeue(outbound[sid]).rest]
    /\ logged' = {}
    /\ UNCHANGED <<udpTasks, clockVars, rl, nread, msgChan, sessions, nsess, sess,
                   obClosed, connOpen, rep, sessionEvents, wireVars>>

\* The range loop ends: the channel is closed and drained.
FwdExit(sid) ==
    /\ Running("udp") /\ fwd[sid].pc = "recv"
    /\ outbound[sid] = <<>> /\ obClosed[sid]
    /\ fwd' = [fwd EXCEPT ![sid] = [pc |-> "done", data |-> 0]]
    /\ logged' = {}
    /\ UNCHANGED <<udpTasks, clockVars, rl, nread, msgChan, tableVars, rep,
                   sessionEvents, wireVars>>

\* session.remoteConn.Write(data) succeeded.
FwdWriteOK(sid) ==
    /\ Running("udp") /\ fwd[sid].pc = "write"
    /\ connOpen[sid]
    /\ toRemote' = [toRemote EXCEPT ![ClientOf(sess[sid].clientAddr)] =
                      Append(@, [sid |-> sid, data |-> fwd[sid].data])]
    /\ fwd' = [fwd EXCEPT ![sid] = [pc |-> "recv", data |-> 0]]
    /\ logged' = {}
    /\ UNCHANGED <<udpTasks, clockVars, rl, nread, msgChan, tableVars, rep,
                   sessionEvents, nreplies, nfaults, toClient>>

\* Mutant of FwdWriteErr: after a failed Write the forwarder logs and tries the
\* same payload again.
FwdWriteErrRetry(sid) ==
    /\ Running("udp") /\ fwd[sid].pc = "write"
    /\ Fault(connOpen[sid])
    /\ logged' = {"Error sending UDP payload"}
    /\ UNCHANGED <<udpTasks, clockVars, rl, nread, msgChan, tableVars, fwd, rep,
                   sessionEvents, nreplies, toRemote, toClient>>

\* Mutant of FwdWriteErr: after a failed Write the forwarder reports and goes on
\* with the next payload of the queue.
FwdWriteErrGoesOn(sid) ==
    /\ Running("udp") /\ fwd[sid].pc = "write"
    /\ Fault(connOpen[sid])
    /\ Notify(sid, "write failure", {"Error sending UDP payload"})
    /\ fwd' = [fwd EXCEPT ![sid] = [pc |-> "recv", data |-> 0]]
    /\ UNCHANGED <<udpTasks, clockVars, rl, nread, msgChan, tableVars, rep,
                   nreplies, toRemote, toClient>>

\* session.remoteConn.Write(data) failed (always, once the socket is closed).
FwdWriteErr(sid) ==
    /\ Running("udp") /\ fwd[sid].pc = "write"
    /\ Fault(connOpen[sid])
    /\ Notify(sid, "write failure", {"Error sending UDP payload"})
    /\ fwd' = [fwd EXCEPT ![sid] = [pc |-> "done", data |-> 0]]
    /\ UNCHANGED <<udpTasks, clockVars, rl, nread, msgChan, tableVars, rep,
                   nreplies, toRemote, toClient>>

\* ------------------------------------------------------------------------
\* relayUDPReplies
\* ------------------------------------------------------------------------
\* session.remoteConn.Read(replyBuf) returned a datagram of the remote.
RepRead(sid) ==
    /\ Running("udp") /\ rep[sid].pc = "read"
    /\ connOpen[sid]
    /\ nreplies < budget.replies
    /\ nreplies' = nreplies + 1
    /\ rep' = [rep EXCEPT ![sid].pc = "respond", ![sid].data = nreplies + 1]
    /\ logged' = {}
    /\ UNCHANGED <<udpTasks, clockVars, rl, nread, msgChan, tableVars, fwd,
                   sessionEvents, nfaults, toRemote, toClient>>

\* Mutant of RepTimeout: every read timeout is reported as a remote idle
\* timeout and ends the replier.
RepTimeoutExits(sid) ==
    /\ Running("udp") /\ rep[sid].pc = "read"
    /\ connOpen[sid]
    /\ rep[sid].deadline = 0
    /\ Notify(sid, "remote idle timeout", {})
    /\ rep' = [rep EXCEPT ![sid] = [pc |-> "done", data |-> 0, deadline |-> 0]]
    /\ UNCHANGED <<udpTasks, clockVars, rl, nread, msgChan, tableVars, fwd, wireVars>>

\* The read deadline passed: continue while the session was active in the last
\* 60 seconds, else report "remote idle timeout" and return.
RepTimeout(sid) ==
    /\ Running("udp") /\ rep[sid].pc = "read"
    /\ connOpen[sid]
    /\ rep[sid].deadline = 0
    /\ IF now - sess[sid].lastActive < IdleTimeout
       THEN /\ rep' = [rep EXCEPT ![sid].deadline = now + ReadDeadline]
            /\ logged' = {}
            /\ UNCHANGED sessionEvents
       ELSE /\ Notify(sid, "remote idle timeout", {})
            /\ rep' = [rep EXCEPT ![sid] = [pc |-> "done", data |-> 0, deadline |-> 0]]
    /\ UNCHANGED <<udpTasks, clockVars, rl, nread, msgChan, tableVars, fwd, wireVars>>

\* session.remoteConn.Read failed with an error that is no timeout (always, once
\* the socket is closed).
RepReadErr(sid) ==
    /\ Running("udp") /\ rep[sid].pc = "read"
    /\ Fault(connOpen[sid])
    /\ Notify(sid, "read failure", {"Error reading UDP reply"})
    /\ rep' = [rep EXCEPT ![sid] = [pc |-> "done", data |-> 0, deadline |-> 0]]
    /\ UNCHANGED <<udpTasks, clockVars, rl, nread, msgChan, tableVars, fwd,
                   nreplies, toRemote, toClient>>

\* Mutant of RepRespondOK: the reply goes to the client address of the session
\* made last.
RepRespondOKToLatest(sid) ==
    /\ Running("udp") /\ rep[sid].pc = "respond"
    /\ toClient' = [toClient EXCEPT ![ClientOf(sess[nsess].clientAddr)] =
                      Append(@, [sid |-> sid, data |-> rep[sid].data])]
    /\ rep' = [rep EXCEPT ![sid] = [pc |-> "read", data |-> 0,
                                    deadline |-> now + ReadDeadline]]
    /\ logged' = {}
    /\ UNCHANGED <<udpTasks, clockVars, rl, nread, msgChan, tableVars, fwd,
                   sessionEvents, nreplies, nfaults, toRemote>>

\* Mutant of RepRespondOK: a relayed reply counts as activity of the session.
RepRespondOKRefreshes(sid) ==
    /\ Running("udp") /\ rep[sid].pc = "respond"
    /\ toClient' = [toClient EXCEPT ![ClientOf(sess[sid].clientAddr)] =
                      Append(@, [sid |-> sid, data |-> rep[sid].data])]
    /\ rep' = [rep EXCEPT ![sid] = [pc |-> "read", data |-> 0,
                                    deadline |-> now + ReadDeadline]]
    /\ sess' = [sess EXCEPT ![sid].lastActive = now]
    /\ logged' = {}
    /\ UNCHANGED <<udpTasks, clockVars, rl, nread, msgChan, sessions, nsess,
                   outbound, obClosed, connOpen, fwd, sessionEvents, nreplies,
                   nfaults, toRemote>>

\* responder.WriteTo(replyBuf[:n], session.clientAddr) succeeded.
RepRespondOK(sid) ==
    /\ Running("udp") /\ rep[sid].pc = "respond"
    /\ toClient' = [toClient EXCEPT ![ClientOf(sess[sid].clientAddr)] =
                      Append(@, [sid |-> sid, data |-> rep[sid].data])]
    /\ rep' = [rep EXCEPT ![sid] = [pc |-> "read", data |-> 0,
                                    deadline |-> now + ReadDeadline]]
    /\ logged' = {}
    /\ UNCHANGED <<udpTasks, clockVars, rl, nread, msgChan, tableVars, fwd,
                   sessionEvents, nreplies, nfaults, toRemote>>

\* responder.WriteTo failed.
RepRespondErr(sid) ==
    /\ Running("udp") /\ rep[sid].pc = "respond"
    /\ Fault(TRUE)
    /\ Notify(sid, "respond failure", {"Error writing UDP reply"})
    /\ rep' = [rep EXCEPT ![sid] = [pc |-> "done", data |-> 0, deadline |-> 0]]
    /\ UNCHANGED <<udpTasks, clockVars, rl, nread, msgChan, tableVars, fwd,
                   nreplies, toRemote, toClient>>

\* ------------------------------------------------------------------------
\* Specification
\* ------------------------------------------------------------------------
vars == <<proto, listen, alive, logged, budget, nfaults, udpVars, tcpVars, parseVars, logVars>>

InitState ==
    /\ listen = "init"
    /\ alive = TRUE
    /\ logged = {}
    /\ now = 0
    /\ nextTick = CleanupInterval
    /\ tickPending = FALSE
    /\ rl = [pc |-> "read", buf |-> 0, msg |-> NoMsg]
    /\ nread = [c \in Clients |-> 0]
    /\ msgChan = <<>>
    /\ mgr = [pc |-> "select", msg |-> NoMsg]
    /\ sessions = <<>>
    /\ nsess = 0
    /\ sess = [i \in Sids |-> [clientAddr |-> NoMsg.addr, id |-> <<>>, lastActive |-> 0]]
    /\ outbound = [i \in Sids |-> <<>>]
    /\ obClosed = [i \in Sids |-> FALSE]
    /\ connOpen = [i \in Sids |-> TRUE]
    /\ fwd = [i \in Sids |-> [pc |-> "none", data |-> 0]]
    /\ rep = [i \in Sids |-> [pc |-> "none", data |-> 0, deadline |-> 0]]
    /\ sessionEvents = <<>>
    /\ nreplies = 0
    /\ nfaults = 0
    /\ toRemote = [c \in Clients |-> <<>>]
    /\ toClient = [c \in Clients |-> <<>>]
    /\ acc = [pc |-> "accept", conn |-> 0]
    /\ nacc = 0
    /\ worker = [w \in Workers |-> [pc |-> "recv", conn |-> 0]]
    /\ h = [c \in Conns |-> [pc |-> "none", dials |-> 0, closedLogs |-> 0]]
    /\ done = [c \in Conns |-> 0]
    /\ cp = [c \in Conns |-> [d \in Dirs |-> [pc |-> "none", buf |-> <<>>, nread |-> 0]]]
    /\ wrote = [c \in Conns |-> [d \in Dirs |-> <<>>]]
    /\ cliSock = [c \in Conns |-> "none"]
    /\ srvSock = [c \in Conns |-> "none"]
    /\ client = [c \in Conns |-> [sent |-> 0, open |-> TRUE]]
    /\ remote = [c \in Conns |-> [kind |-> "none", sent |-> <<>>, open |-> TRUE]]
    /\ handles = [x \in Handles |-> IF x = 1 THEN [st |-> "open", file |-> 1]
                                             ELSE [st |-> "none", file |-> 0]]
    /\ sizes = [f \in Handles |-> 0]
    /\ pathFile = 1
    /\ currentFile = 1
    /\ loggerOut = 1
    /\ nrot = 0

\* The routes were parsed before any relay starts; a relay does not look at them.
NotCalled == [called |-> FALSE, routes |-> <<>>, err |-> "nil"]
ParseIdle == routesFlag = <<>> /\ ret = NotCalled

InitUDP == InitState /\ ParseIdle /\ proto = "udp" /\ budget \in UDPScenarios
InitTCP == InitState /\ ParseIdle /\ proto = "tcp" /\ budget \in TCPScenarios
Init == InitUDP \/ InitTCP

UDPNext ==
    \/ UDPBind
    \/ ReadLoopRead
    \/ ReadLoopSend
    \/ ManagerMsgKnown
    \/ ManagerMsgNew
    \/ ManagerSweep
    \/ ManagerEvent
    \/ AdvanceTime
    \/ \E sid \in Sids :
         \/ FwdRecv(sid)
         \/ FwdExit(sid)
         \/ FwdWriteOK(sid)
         \/ FwdWriteErr(sid)
         \/ RepRead(sid)
         \/ RepTimeout(sid)
         \/ RepReadErr(sid)
         \/ RepRespondOK(sid)
         \/ RepRespondErr(sid)

\* The UDP relay of a route whose target is a host name: the manager's handling
\* of a datagram of an unseen client waits for the resolver.
UDPNextResolving ==
    \/ UDPBind
    \/ ReadLoopRead
    \/ ReadLoopSend
    \/ ManagerMsgKnown
    \/ ManagerResolve
    \/ ManagerResolved
    \/ ManagerSweep
    \/ ManagerEvent
    \/ AdvanceTime
    \/ \E sid \in Sids :
         \/ FwdRecv(sid)
         \/ FwdExit(sid)
         \/ FwdWriteOK(sid)
         \/ FwdWriteErr(sid)
         \/ RepRead(sid)
         \/ RepTimeout(sid)
         \/ RepReadErr(sid)
         \/ RepRespondOK(sid)
         \/ RepRespondErr(sid)

SpecUDPResolving == InitUDP /\ [][UDPNextResolving]_vars

\* ------------------------------------------------------------------------
\* The UDP relay in runs without end: clients that go on sending, a clock that
\* goes on running.
\* ------------------------------------------------------------------------
\* conn.ReadFrom(buffer) returned a datagram with the same bytes as the last one
\* of that client: a client that has had no answer sends its request again and
\* again.  The read loop treats it as any datagram.  The clients that do so
\* here are those whose session has lost its forwarder with no report of it
\* in the event channel; they send once the clock has reached the horizon,
\* when the manager has taken what was sent before, and while a session can
\* still be made.
ReadLoopReadRepeat ==
    /\ Running("udp") /\ rl.pc = "read"
    /\ SumOver(nread, Clients) = budget.datagrams
    /\ now = budget.horizon
    /\ msgChan = <<>> /\ nsess < Cardinality(Sids)
    /\ \E c \in Clients :
        /\ nread[c] > 0
        /\ SessionKey(ClientAddr(c)) \in DOMAIN sessions
        /\ fwd[sessions[SessionKey(ClientAddr(c))]].pc = "done"
        /\ \A n \in DOMAIN sessionEvents :
              sessionEvents[n].key # SessionKey(ClientAddr(c))
        /\ rl' = [pc |-> "send", buf |-> nread[c],
                  msg |-> [data |-> nread[c], addr |-> ClientAddr(c)]]
    /\ logged' = {}
    /\ UNCHANGED <<udpTasks, clockVars, nread, msgChan, tableVars, fwd, rep,
                   sessionEvents, wireVars>>

\* The origin of the clock is moved on by one cleanup interval once the clock
\* has reached the horizon.  The program uses time only in differences
\* (time.Since(lastActive), Now().Add(5s)), which this keeps; a lastActive
\* older than the idle timeout at any later instant is kept at that age.  The
\* runs followed beyond the horizon are those in which the datagrams of the
\* run have all arrived by then, the relay has handled all it received and the
\* tasks of the evicted sessions have ended.
Settled ==
    /\ SumOver(nread, Clients) = budget.datagrams
    /\ rl.pc = "read" /\ msgChan = <<>> /\ sessionEvents = <<>>
    /\ \A i \in 1..nsess :
          /\ fwd[i].pc \in {"recv", "done"} /\ rep[i].pc \in {"read", "done"}
          /\ ~connOpen[i] => fwd[i].pc = "done" /\ rep[i].pc = "done"

RebaseClock ==
    /\ Running("udp") /\ ~tickPending /\ now = budget.horizon
    /\ now >= IdleTimeout + CleanupInterval
    /\ Settled
    /\ now' = now - CleanupInterval
    /\ nextTick' = nextTick - CleanupInterval
    /\ sess' = [i \in Sids |->
                  IF i <= nsess
                  THEN [sess[i] EXCEPT !.lastActive = Max(@ - CleanupInterval, 0 - CleanupInterval)]
                  ELSE sess[i]]
    /\ rep' = [i \in Sids |->
                 IF rep[i].deadline > 0
                 THEN [rep[i] EXCEPT !.deadline = @ - CleanupInterval] ELSE rep[i]]
    /\ logged' = {}
    /\ UNCHANGED <<udpTasks, tickPending, rl, nread, msgChan, sessions, nsess,
                   outbound, obClosed, connOpen, fwd, sessionEvents, wireVars>>

\* The remote stays silent in these runs.
UDPNextSteady ==
    \/ UDPBind
    \/ ReadLoopRead
    \/ ReadLoopReadRepeat
    \/ ReadLoopSend
    \/ ManagerMsgKnown
    \/ ManagerMsgNew
    \/ ManagerSweep
    \/ ManagerEvent
    \/ AdvanceTime
    \/ RebaseClock
    \/ \E sid \in Sids :
         \/ FwdRecv(sid)
         \/ FwdExit(sid)
         \/ FwdWriteOK(sid)
         \/ FwdWriteErr(sid)
         \/ RepTimeout(sid)
         \/ RepReadErr(sid)

\* One step of the manager, of the forwarder and of the replier of a session.
ForwarderStep(sid) == FwdRecv(sid) \/ FwdExit(sid) \/ FwdWriteOK(sid) \/ FwdWriteErr(sid)
ReplierStep(sid) == RepTimeout(sid) \/ RepReadErr(sid)

\* The scheduler runs every goroutine that can run; the manager's select
\* chooses among its ready cases at random, so a case that stays ready is
\* taken; the clock does not stop.
UDPFairness ==
    /\ WF_vars(ReadLoopSend)
    /\ WF_vars(ManagerMsgKnown \/ ManagerMsgNew)
    /\ WF_vars(ManagerSweep)
    /\ WF_vars(ManagerEvent)
    /\ WF_vars(AdvanceTime \/ RebaseClock)
    /\ \A sid \in Sids : WF_vars(ForwarderStep(sid)) /\ WF_vars(ReplierStep(sid))

InitUDPSteady ==
    /\ InitState /\ ParseIdle /\ proto = "udp"
    /\ budget = [datagrams |-> MaxDatagrams, horizon |-> MaxTime, replies |-> 0,
                 conns |-> 0, bytes |-> 0]

SpecUDPSteady == InitUDPSteady /\ [][UDPNextSteady]_vars /\ UDPFairness

\* ------------------------------------------------------------------------
\* StartTCPProxy: bind, worker pool, accept loop
\* ------------------------------------------------------------------------
tcpEnv == <<proto, budget, udpVars, parseVars, logVars>>

TCPBind ==
    /\ alive /\ proto = "tcp" /\ listen = "init"
    /\ \/ /\ listen' = "ok"
          /\ logged' = {"TCP proxy started"}
          /\ alive' = alive
       \/ /\ listen' = "failed"            \* logger.Fatalf: log, then os.Exit(1)
          /\ logged' = {"Failed to start proxy"}
          /\ alive' = FALSE
    /\ UNCHANGED <<tcpEnv, nfaults, tcpVars>>

\* listener.Accept() returned the connection of a new client.
TCPAccept ==
    /\ Running("tcp") /\ acc.pc = "accept"
    /\ nacc < budget.conns
    /\ nacc' = nacc + 1
    /\ acc' = [pc |-> "send", conn |-> nacc + 1]
    /\ cliSock' = [cliSock EXCEPT ![nacc + 1] = "open"]
    /\ logged' = {}
    /\ UNCHANGED <<tcpEnv, nfaults, listen, alive, worker, h, done, cp, wrote, srvSock,
                   client, remote>>

\* Mutant of TCPAcceptErr: the accept loop returns on an accept error.
TCPAcceptErrStops ==
    /\ Running("tcp") /\ acc.pc = "accept"
    /\ Fault(TRUE)
    /\ acc' = [pc |-> "stopped", conn |-> 0]
    /\ logged' = {"Error accepting TCP connection"}
    /\ UNCHANGED <<tcpEnv, listen, alive, nacc, worker, h, done, cp, wrote, cliSock,
                   srvSock, client, remote>>

\* listener.Accept() returned an error: log and accept again.
TCPAcceptErr ==
    /\ Running("tcp") /\ acc.pc = "accept"
    /\ Fault(TRUE)
    /\ logged' = {"Error accepting TCP connection"}
    /\ UNCHANGED <<tcpEnv, listen, alive, tcpVars>>

\* Mutant of HandOff: a worker relays the connection itself and receives the
\* next one only when no connection is in progress.
HandOffWhenIdle(w) ==
    /\ Running("tcp") /\ acc.pc = "send" /\ worker[w].pc = "recv"
    /\ \A c \in Conns : h[c].pc \in {"none", "failed", "closed"}
    /\ worker' = [worker EXCEPT ![w] = [pc |-> "spawn", conn |-> acc.conn]]
    /\ acc' = [pc |-> "accept", conn |-> 0]
    /\ logged' = {}
    /\ UNCHANGED <<tcpEnv, nfaults, listen, alive, nacc, h, done, cp, wrote, cliSock,
                   srvSock, client, remote>>

\* Mutant of HandOff: the accept loop keeps the connection it has sent and
\* sends it again.
HandOffResends(w) ==
    /\ Running("tcp") /\ acc.pc = "send" /\ worker[w].pc = "recv"
    /\ worker' = [worker EXCEPT ![w] = [pc |-> "spawn", conn |-> acc.conn]]
    /\ acc' = acc
    /\ logged' = {}
    /\ UNCHANGED <<tcpEnv, nfaults, listen, alive, nacc, h, done, cp, wrote, cliSock,
                   srvSock, client, remote>>

\* connChan <- clientConn meets a worker's receive (the channel is unbuffered).
HandOff(w) ==
    /\ Running("tcp") /\ acc.pc = "send" /\ worker[w].pc = "recv"
    /\ worker' = [worker EXCEPT ![w] = [pc |-> "spawn", conn |-> acc.conn]]
    /\ acc' = [pc |-> "accept", conn |-> 0]
    /\ logged' = {}
    /\ UNCHANGED <<tcpEnv, nfaults, listen, alive, nacc, h, done, cp, wrote, cliSock,
                   srvSock, client, remote>>

\* go func(conn net.Conn) {...}(clientConn); the worker returns to its select.
WorkerSpawn(w) ==
    /\ Running("tcp") /\ worker[w].pc = "spawn"
    /\ h' = [h EXCEPT ![worker[w].conn].pc = "start"]
    /\ worker' = [worker EXCEPT ![w] = [pc |-> "recv", conn |-> 0]]
    /\ logged' = {}
    /\ UNCHANGED <<tcpEnv, nfaults, listen, alive, acc, nacc, done, cp, wrote, cliSock,
                   srvSock, client, remote>>

\* ------------------------------------------------------------------------
\* The goroutine of one connection
\* ------------------------------------------------------------------------
\* logger.Printf("New TCP connection"); net.Dial("tcp", targetAddr) starts.
HandlerStart(c) ==
    /\ Running("tcp") /\ h[c].pc = "start"
    /\ h' = [h EXCEPT ![c].pc = "dial", ![c].dials = @ + 1]
    /\ logged' = {"New TCP connection"}
    /\ UNCHANGED <<tcpEnv, nfaults, listen, alive, acc, nacc, worker, done, cp, wrote,
                   cliSock, srvSock, client, remote>>

\* Mutant of DialFail: the failure is logged with Fatalf, which ends the process.
DialFailFatal(c) ==
    /\ Running("tcp") /\ h[c].pc = "dial"
    /\ h' = [h EXCEPT ![c].pc = "failed"]
    /\ cliSock' = [cliSock EXCEPT ![c] = "closed"]
    /\ logged' = {"Failed to connect to TCP server"}
    /\ alive' = FALSE
    /\ UNCHANGED <<tcpEnv, nfaults, listen, acc, nacc, worker, done, cp, wrote,
                   srvSock, client, remote>>

\* Mutant of DialFail: the client socket is left open.
DialFailNoClose(c) ==
    /\ Running("tcp") /\ h[c].pc = "dial"
    /\ h' = [h EXCEPT ![c].pc = "failed"]
    /\ logged' = {"Failed to connect to TCP server"}
    /\ UNCHANGED <<tcpEnv, nfaults, listen, alive, acc, nacc, worker, done, cp, wrote,
                   cliSock, srvSock, client, remote>>

\* net.Dial failed: log, return; the deferred conn.Close() runs.
DialFail(c) ==
    /\ Running("tcp") /\ h[c].pc = "dial"
    /\ h' = [h EXCEPT ![c].pc = "failed"]
    /\ cliSock' = [cliSock EXCEPT ![c] = "closed"]
    /\ logged' = {"Failed to connect to TCP server"}
    /\ UNCHANGED <<tcpEnv, nfaults, listen, alive, acc, nacc, worker, done, cp, wrote,
                   srvSock, client, remote>>

\* net.Dial succeeded: the done channel is made and both copy tasks start.  The
\* remote is an echo server, or a peer that sends and closes as it likes.
DialOK(c) ==
    /\ Running("tcp") /\ h[c].pc = "dial"
    /\ h' = [h EXCEPT ![c].pc = "wait"]
    /\ srvSock' = [srvSock EXCEPT ![c] = "open"]
    /\ \E k \in {"echo", "free"} : remote' = [remote EXCEPT ![c].kind = k]
    /\ cp' = [cp EXCEPT ![c] = [d \in Dirs |-> [pc |-> "read", buf |-> <<>>, nread |-> 0]]]
    /\ logged' = {}
    /\ UNCHANGED <<tcpEnv, nfaults, listen, alive, acc, nacc, worker, done, wrote,
                   cliSock, client>>

\* Mutant of Finish: the sockets closed are those of the connection accepted
\* last.
FinishLatest(c) ==
    /\ Running("tcp") /\ h[c].pc = "wait"
    /\ done[c] >= 2
    /\ done' = [done EXCEPT ![c] = @ - 2]
    /\ h' = [h EXCEPT ![c].pc = "closed", ![c].closedLogs = @ + 1]
    /\ srvSock' = [srvSock EXCEPT ![nacc] = "closed"]
    /\ cliSock' = [cliSock EXCEPT ![nacc] = "closed"]
    /\ logged' = {"TCP connection closed"}
    /\ UNCHANGED <<tcpEnv, nfaults, listen, alive, acc, nacc, worker, cp, wrote, client, remote>>

\* Mutant of DonesNeeded: the goroutine waits for one copy task only.
DonesNeededOne == 2 - 1

\* <-done; <-done
DonesNeeded == 2

\* Both receives from done returned: log, then the deferred serverConn.Close()
\* and conn.Close().
Finish(c) ==
    /\ Running("tcp") /\ h[c].pc = "wait"
    /\ done[c] >= DonesNeeded
    /\ done' = [done EXCEPT ![c] = @ - DonesNeeded]
    /\ h' = [h EXCEPT ![c].pc = "closed", ![c].closedLogs = @ + 1]
    /\ srvSock' = [srvSock EXCEPT ![c] = "closed"]
    /\ cliSock' = [cliSock EXCEPT ![c] = "closed"]
    /\ logged' = {"TCP connection closed"}
    /\ UNCHANGED <<tcpEnv, nfaults, listen, alive, acc, nacc, worker, cp, wrote, client, remote>>

\* ------------------------------------------------------------------------
\* io.Copy(dst, src), one task per direction
\* ------------------------------------------------------------------------
\* The bytes the source peer of direction d has sent: the k-th byte of a client
\* is k; the remote's bytes are held in remote[c].sent.
Stream(c, d) ==
    IF d = "c2s" THEN [i \in 1..client[c].sent |-> i] ELSE remote[c].sent

SrcPeerOpen(c, d) == IF d = "c2s" THEN client[c].open ELSE remote[c].open
DstPeerOpen(c, d) == IF d = "c2s" THEN remote[c].open ELSE client[c].open
SrcSock(c, d) == IF d = "c2s" THEN cliSock[c] ELSE srvSock[c]
DstSock(c, d) == IF d = "c2s" THEN srvSock[c] ELSE cliSock[c]

Unread(c, d) == SubSeq(Stream(c, d), cp[c][d].nread + 1, Len(Stream(c, d)))

\* Mutant of Chunk: the buffer is handed on with its first byte repeated.
ChunkRepeated(bytes) == <<bytes[1]>> \o bytes

\* buf[0:nr]: the bytes a Read returned, as they are passed to Write.
Chunk(bytes) == bytes

\* src.Read returned the bytes that have arrived.
CopyRead(c, d) ==
    /\ Running("tcp") /\ cp[c][d].pc = "read"
    /\ SrcSock(c, d) = "open"
    /\ Unread(c, d) # <<>>
    /\ cp' = [cp EXCEPT ![c][d] = [pc |-> "write", buf |-> Chunk(Unread(c, d)),
                                   nread |-> Len(Stream(c, d))]]
    /\ logged' = {}
    /\ UNCHANGED <<tcpEnv, listen, alive, acc, nacc, worker, h, done, wrote,
                   cliSock, srvSock, client, remote, nfaults>>

\* src.Read returned io.EOF: the peer has closed and nothing is left to read.
\* io.Copy returns nil and the task signals done.
CopyEOF(c, d) ==
    /\ Running("tcp") /\ cp[c][d].pc = "read"
    /\ SrcSock(c, d) = "open"
    /\ Unread(c, d) = <<>> /\ ~SrcPeerOpen(c, d)
    /\ cp' = [cp EXCEPT ![c][d] = [pc |-> "done", buf |-> <<>>, nread |-> @.nread]]
    /\ done' = [done EXCEPT ![c] = @ + 1]
    /\ logged' = {}
    /\ UNCHANGED <<tcpEnv, listen, alive, acc, nacc, worker, h, wrote, cliSock,
                   srvSock, client, remote, nfaults>>

\* src.Read failed (always, once the relay has closed the socket): the error is
\* logged and the task signals done.
CopyReadErr(c, d) ==
    /\ Running("tcp") /\ cp[c][d].pc = "read"
    /\ Fault(SrcSock(c, d) = "open")
    /\ cp' = [cp EXCEPT ![c][d] = [pc |-> "done", buf |-> <<>>, nread |-> @.nread]]
    /\ done' = [done EXCEPT ![c] = @ + 1]
    /\ logged' = {"Error copying"}
    /\ UNCHANGED <<tcpEnv, listen, alive, acc, nacc, worker, h, wrote, cliSock,
                   srvSock, client, remote>>

\* dst.Write(buf[0:nr]) wrote the whole buffer.
CopyWrite(c, d) ==
    /\ Running("tcp") /\ cp[c][d].pc = "write"
    /\ DstSock(c, d) = "open"
    /\ wrote' = [wrote EXCEPT ![c][d] = @ \o cp[c][d].buf]
    /\ cp' = [cp EXCEPT ![c][d].pc = "read", ![c][d].buf = <<>>]
    /\ logged' = {}
    /\ UNCHANGED <<tcpEnv, listen, alive, acc, nacc, worker, h, done, cliSock,
                   srvSock, client, remote, nfaults>>

\* dst.Write failed after n bytes (always, once the relay has closed the socket;
\* at will once the peer has closed): the error is logged, the task signals done.
CopyWriteErr(c, d) ==
    /\ Running("tcp") /\ cp[c][d].pc = "write"
    /\ Fault(DstSock(c, d) = "open" /\ DstPeerOpen(c, d))
    /\ \E n \in 0..(Len(cp[c][d].buf) - 1) :
         wrote' = [wrote EXCEPT ![c][d] =
                     IF DstSock(c, d) = "open" THEN @ \o SubSeq(cp[c][d].buf, 1, n) ELSE @]
    /\ cp' = [cp EXCEPT ![c][d] = [pc |-> "done", buf |-> <<>>, nread |-> @.nread]]
    /\ done' = [done EXCEPT ![c] = @ + 1]
    /\ logged' = {"Error copying"}
    /\ UNCHANGED <<tcpEnv, listen, alive, acc, nacc, worker, h, cliSock,
                   srvSock, client, remote>>

\* ------------------------------------------------------------------------
\* The peers
\* ------------------------------------------------------------------------
tcpRelay == <<acc, nacc, worker, h, done, cp, wrote, cliSock, srvSock>>

ClientSend(c) ==
    /\ Running("tcp") /\ cliSock[c] # "none"
    /\ client[c].open /\ client[c].sent < budget.bytes
    /\ client' = [client EXCEPT ![c].sent = @ + 1]
    /\ logged' = {}
    /\ UNCHANGED <<tcpEnv, listen, alive, tcpRelay, remote, nfaults>>

ClientClose(c) ==
    /\ Running("tcp") /\ cliSock[c] # "none"
    /\ client[c].open
    /\ client' = [client EXCEPT ![c].open = FALSE]
    /\ logged' = {}
    /\ UNCHANGED <<tcpEnv, listen, alive, tcpRelay, remote, nfaults>>

\* The echo server sends back the next byte it received.
RemoteEcho(c) ==
    /\ Running("tcp") /\ remote[c].kind = "echo"
    /\ Len(remote[c].sent) < Len(wrote[c]["c2s"])
    /\ remote' = [remote EXCEPT ![c].sent = Append(@, wrote[c]["c2s"][Len(@) + 1])]
    /\ logged' = {}
    /\ UNCHANGED <<tcpEnv, listen, alive, tcpRelay, client, nfaults>>

\* Another remote sends bytes of its own: its k-th byte is 10 + k.
RemoteSend(c) ==
    /\ Running("tcp") /\ remote[c].kind = "free"
    /\ remote[c].open /\ Len(remote[c].sent) < budget.bytes
    /\ remote' = [remote EXCEPT ![c].sent = Append(@, 10 + Len(@) + 1)]
    /\ logged' = {}
    /\ UNCHANGED <<tcpEnv, listen, alive, tcpRelay, client, nfaults>>

\* ... and closes when it likes.  The echo server closes only at end of stream,
\* which it sees when the relay closes its socket.
RemoteClose(c) ==
    /\ Running("tcp") /\ remote[c].open
    /\ \/ remote[c].kind = "free"
       \/ remote[c].kind = "echo" /\ srvSock[c] = "closed"
    /\ remote' = [remote EXCEPT ![c].open = FALSE]
    /\ logged' = {}
    /\ UNCHANGED <<tcpEnv, listen, alive, tcpRelay, client, nfaults>>

TCPNext ==
    \/ TCPBind
    \/ TCPAccept
    \/ TCPAcceptErr
    \/ \E w \in Workers : HandOff(w) \/ WorkerSpawn(w)
    \/ \E c \in Conns :
         \/ HandlerStart(c)
         \/ DialFail(c)
         \/ DialOK(c)
         \/ Finish(c)
         \/ ClientSend(c)
         \/ ClientClose(c)
         \/ RemoteEcho(c)
         \/ RemoteSend(c)
         \/ RemoteClose(c)
         \/ \E d \in Dirs :
              \/ CopyRead(c, d)
              \/ CopyEOF(c, d)
              \/ CopyReadErr(c, d)
              \/ CopyWrite(c, d)
              \/ CopyWriteErr(c, d)

Next == UDPNext \/ TCPNext

Spec == Init /\ [][Next]_vars
SpecUDP == InitUDP /\ [][UDPNext]_vars
SpecTCP == InitTCP /\ [][TCPNext]_vars

\* The scheduler runs every goroutine that can take a step, and the peers go on
\* as long as they can.
SpecTCPFair == SpecTCP /\ WF_vars(TCPNext)

\* ------------------------------------------------------------------------
\* Properties of the UDP session manager
\* ------------------------------------------------------------------------
Session(k) == sess[sessions[k]]

\* C1: every entry of the session table is keyed by the string form of its
\* session's client address, and no two entries hold the same session or the
\* same client address: at most one session per client address, whatever the
\* interleaving of datagrams, sweeps and failure events.
C1_OneSessionPerClient ==
    /\ \A k \in DOMAIN sessions :
         /\ k = AddrString(Session(k).clientAddr)
         /\ k = Session(k).id
    /\ \A k1, k2 \in DOMAIN sessions :
         k1 # k2 => /\ sessions[k1] # sessions[k2]
                    /\ Session(k1).clientAddr # Session(k2).clientAddr

\* C1 witness: two clients have a session each, one of them a session created
\* after an earlier session of the same client was evicted.
C1_Witness ==
    /\ Cardinality(DOMAIN sessions) = 2
    /\ \E k \in DOMAIN sessions : \E i \in Sids :
         i < sessions[k] /\ sess[i].id = k /\ obClosed[i]

\* C2: the payloads written to the remote for one client are some of the
\* datagrams read from that client, in the order they were read (the k-th
\* datagram of a client carries the number k), across sessions too.
C2_ForwardedInOrder ==
    \A c \in Clients :
       /\ \A i \in DOMAIN toRemote[c] : toRemote[c][i].data \in 1..nread[c]
       /\ \A i, j \in DOMAIN toRemote[c] :
            i < j => toRemote[c][i].data < toRemote[c][j].data

\* C2 witness: one client's datagrams were written by two sessions, the second
\* created after the first was evicted.
C2_Witness ==
    \E c \in Clients :
       /\ Len(toRemote[c]) >= 2
       /\ toRemote[c][1].sid # toRemote[c][2].sid

ManagerReceives == msgChan # <<>> /\ msgChan' = Tail(msgChan)

\* The datagram at the head of msgChan is for a session whose queue is full.
HeadForFullQueue ==
    /\ msgChan # <<>>
    /\ AddrString(Head(msgChan).addr) \in DOMAIN sessions
    /\ Len(outbound[sessions[AddrString(Head(msgChan).addr)]]) = OutboundCap

\* C4: no outbound queue ever holds more than its capacity; a datagram for a
\* session whose queue is full can always be handled at once (the manager does
\* not wait for room), and handling it leaves every queue and the table as they
\* were, takes the datagram off the ingestion channel and logs the drop.
C4_BoundedQueueDrop ==
    /\ [](\A sid \in Sids : Len(outbound[sid]) <= OutboundCap)
    /\ [](Running("udp") /\ HeadForFullQueue => ENABLED ManagerMsgKnown)
    /\ [][ManagerReceives /\ HeadForFullQueue =>
            /\ outbound' = outbound
            /\ sessions' = sessions
            /\ "Dropping UDP packet" \in logged']_vars

\* C4 witness: a drop has just been logged for a session whose queue is full.
C4_Witness ==
    /\ "Dropping UDP packet" \in logged
    /\ \E sid \in Sids : Len(outbound[sid]) = OutboundCap /\ ~obClosed[sid]

\* ------------------------------------------------------------------------
\* Properties of the TCP relay
\* ------------------------------------------------------------------------
IsPrefix(a, b) == Len(a) <= Len(b) /\ a = SubSeq(b, 1, Len(a))

\* The bytes the copy task of direction d has read from its source so far.
ReadSoFar(c, d) == SubSeq(Stream(c, d), 1, cp[c][d].nread)

\* C5: in each direction of a relayed connection, what has been written to the
\* destination socket is a prefix of what has been read from the source socket.
C5_BytesInOrder ==
    \A c \in Conns : \A d \in Dirs :
       srvSock[c] # "none" => IsPrefix(wrote[c][d], ReadSoFar(c, d))

\* C5 witness: a connection on which two bytes went through in both directions.
C5_Witness ==
    \E c \in Conns : Len(wrote[c]["c2s"]) = 2 /\ Len(wrote[c]["s2c"]) = 2

\* C6: with an echo server as the remote, once the client has closed, the relay
\* eventually logs the connection as closed and has closed both sockets.
C6_ClosedAfterClientClose ==
    \A c \in Conns :
       (remote[c].kind = "echo" /\ ~client[c].open)
          ~> (h[c].closedLogs = 1 /\ cliSock[c] = "closed" /\ srvSock[c] = "closed")

BothReported(c) == \A d \in Dirs : cp[c][d].pc = "done"

\* C7: on a connection whose dial succeeded, no socket is closed and no
\* completion is logged before both copy tasks have reported; when both have,
\* the goroutine can finish, and having finished it has closed both sockets and
\* logged the completion exactly once.
C7_ClosedOnlyAfterBoth ==
    \A c \in Conns :
       srvSock[c] # "none" =>
          /\ (cliSock[c] = "closed" \/ srvSock[c] = "closed" \/ h[c].closedLogs > 0)
                => BothReported(c)
          /\ (Running("tcp") /\ h[c].pc = "wait" /\ BothReported(c)) => ENABLED Finish(c)
          /\ h[c].pc = "closed" =>
                cliSock[c] = "closed" /\ srvSock[c] = "closed" /\ h[c].closedLogs = 1
          /\ h[c].closedLogs <= 1

\* C7 witness: a relayed connection has finished.
C7_Witness ==
    \E c \in Conns : h[c].pc = "closed" /\ BothReported(c) /\ Len(wrote[c]["c2s"]) > 0

\* C8: a failed bind of the route's listening socket leaves the process (and
\* with it the relays of the other routes) running.
C8_BindFailureNotFatal == listen = "failed" => alive

\* A step in which the UDP manager fails to resolve or dial the target.
UDPDialFails ==
    logged' \cap {"Failed to resolve UDP target", "Failed to dial UDP target"} # {}

\* A step in which the dial of TCP connection c fails.
TCPDialFails(c) == h[c].pc = "dial" /\ h'[c].pc = "failed"

C9_WitnessUDP ==
    /\ "Failed to dial UDP target" \in logged
    /\ \E k \in DOMAIN sessions : outbound[sessions[k]] # <<>>

\* C10: a failed TCP dial closes the client socket and logs the failure in the
\* same step, after exactly one dial; no copy task exists and no remote socket;
\* the goroutine has returned for good; and while the dial is in progress no
\* worker is held by it.
C10_DialFailureClosesClient ==
    /\ [][\A c \in Conns : TCPDialFails(c) =>
            /\ cliSock[c] = "open" /\ cliSock'[c] = "closed"
            /\ "Failed to connect to TCP server" \in logged']_vars
    /\ [](\A c \in Conns : h[c].pc = "failed" =>
            /\ cliSock[c] = "closed" /\ srvSock[c] = "none"
            /\ h[c].dials = 1 /\ h[c].closedLogs = 0
            /\ \A d \in Dirs : cp[c][d].pc = "none")
    /\ [][\A c \in Conns : h[c].pc = "failed" => h'[c] = h[c]]_vars
    /\ [](\A c \in Conns : h[c].pc = "dial" => \A w \in Workers : worker[w].conn # c)

\* C10 witness: the dial of the second connection has failed, and its client
\* socket is closed, while the dial of the first is still in progress.
C10_Witness ==
    /\ h[1].pc = "dial"
    /\ h[2].pc = "failed" /\ cliSock[2] = "closed"
    /\ "Failed to connect to TCP server" \in logged

\* ------------------------------------------------------------------------
\* Properties of the TCP accept loop and worker pool
\* ------------------------------------------------------------------------
\* A step in which listener.Accept() returns an error.
AcceptFails == "Error accepting TCP connection" \in logged'

\* C11: once the listening socket is bound, the accept loop is always either in
\* Accept or handing a connection to a worker; an accept error is logged and
\* leaves the loop in Accept with the process running; and every connection
\* the loop lets go of is held by a worker.
C11_AcceptLoopGoesOn ==
    /\ [](Running("tcp") => acc.pc \in {"accept", "send"})
    /\ [][AcceptFails =>
            /\ acc.pc = "accept" /\ acc'.pc = "accept"
            /\ alive' /\ listen' = "ok"
            /\ UNCHANGED <<nacc, worker, h, cliSock, srvSock>>]_vars
    /\ [](Running("tcp") /\ acc.pc = "accept" /\ nacc < budget.conns => ENABLED TCPAccept)
    /\ [][acc.pc = "send" /\ acc'.pc # "send" =>
            \E w \in Workers : worker'[w] = [pc |-> "spawn", conn |-> acc.conn]]_vars

\* C11 witness: an accept error has just been logged after one connection was
\* accepted and handed on, and the loop can accept the next.
C11_Witness ==
    /\ "Error accepting TCP connection" \in logged
    /\ nacc = 1 /\ h[1].pc # "none"
    /\ ENABLED TCPAccept

\* ------------------------------------------------------------------------
\* At-most-once relay of datagrams
\* ------------------------------------------------------------------------
CountIn(q, x) == Cardinality({i \in DOMAIN q : q[i] = x})

\* The k-th datagram of client c as the read loop hands it on.
Datagram(c, k) == [data |-> k, addr |-> ClientAddr(c)]

\* How often the k-th datagram of client c has been written to a remote socket.
Written(c, k) == Cardinality({i \in DOMAIN toRemote[c] : toRemote[c][i].data = k})

\* How often that datagram is held by the relay on its way to the remote.
InFlight(c, k) ==
    (IF rl.pc = "send" /\ rl.msg = Datagram(c, k) THEN 1 ELSE 0)
    + CountIn(msgChan, Datagram(c, k))
    + SumOver([i \in Sids |->
                 IF i <= nsess /\ sess[i].clientAddr = ClientAddr(c)
                 THEN CountIn(outbound[i], k)
                      + (IF fwd[i].pc = "write" /\ fwd[i].data = k THEN 1 ELSE 0)
                 ELSE 0], Sids)

Payloads == 1..Max(MaxDatagrams, BurstDatagrams)
Replies == 1..Max(MaxReplies, BurstReplies)

AllInFlight ==
    SumOver([c \in Clients |-> SumOver([k \in Payloads |-> InFlight(c, k)], Payloads)],
            Clients)

\* How often reply r of the remote is held by a replier or was written to a client.
ReplyWritten(r) ==
    SumOver([c \in Clients |->
               Cardinality({i \in DOMAIN toClient[c] : toClient[c][i].data = r})], Clients)

ReplyInFlight(r) == Cardinality({i \in Sids : rep[i].pc = "respond" /\ rep[i].data = r})

AllRepliesInFlight == Cardinality({i \in Sids : rep[i].pc = "respond"})

\* C12: every datagram read from the listening socket is, in flight and written
\* taken together, there at most once, and only if it was read; the same for
\* every reply read from a remote socket; a failed write to the remote drops
\* the payload it held, and a failed write to the client drops the reply,
\* without writing anything.
C12_AtMostOnce ==
    /\ [](\A c \in Clients : \A k \in Payloads :
            /\ InFlight(c, k) + Written(c, k) <= 1
            /\ k > nread[c] => InFlight(c, k) + Written(c, k) = 0)
    /\ [](\A r \in Replies :
            /\ ReplyInFlight(r) + ReplyWritten(r) <= 1
            /\ r > nreplies => ReplyInFlight(r) + ReplyWritten(r) = 0)
    /\ []["Error sending UDP payload" \in logged' =>
            toRemote' = toRemote /\ AllInFlight' = AllInFlight - 1]_vars
    /\ []["Error writing UDP reply" \in logged' =>
            toClient' = toClient /\ AllRepliesInFlight' = AllRepliesInFlight - 1]_vars

\* C12 witness: a write to the remote has just failed, after a datagram went
\* through to the remote and a reply went back to a client.
C12_Witness ==
    /\ "Error sending UDP payload" \in logged
    /\ \E c \in Clients : toRemote[c] # <<>>
    /\ \E c \in Clients : toClient[c] # <<>>

\* ------------------------------------------------------------------------
\* Stability of a session
\* ------------------------------------------------------------------------
\* In this step the session held under key k leaves the table.
Removed(k) == k \in DOMAIN sessions /\ k \notin DOMAIN sessions'

\* C13: a session leaves the table only if its client has been silent for 60
\* seconds or more, or one of its own tasks has stopped on an error or on the
\* remote idle timeout.
C13_ActiveSessionKept ==
    [][\A k \in DOMAIN sessions :
          Removed(k) =>
             \/ now - Session(k).lastActive >= IdleTimeout
             \/ fwd[sessions[k]].pc = "done"
             \/ rep[sessions[k]].pc = "done"]_vars

\* ------------------------------------------------------------------------
\* Ownership of the session table
\* ------------------------------------------------------------------------
SweepStep == tickPending /\ ~tickPending'
EventStep == sessionEvents # <<>> /\ sessionEvents' = Tail(sessionEvents)
MsgStep == msgChan # <<>> /\ msgChan' = Tail(msgChan)

\* In this step the session with identity i is torn down.
TornDown(i) == (obClosed'[i] /\ ~obClosed[i]) \/ (~connOpen'[i] /\ connOpen[i])

\* C14: the table, the closing of queues and the closing of remote sockets
\* change only in steps of the manager, in which no forwarder or replier
\* moves; a session in the table has its queue and socket open and is there
\* under one key; a session is torn down in a sweep or in the handling of an
\* event, never both, with its entry removed, its queue and socket closed
\* together, and nothing of it is closed again or reopened.
C14_ManagerOwnsTable ==
    /\ [][(sessions' # sessions \/ obClosed' # obClosed \/ connOpen' # connOpen) =>
            /\ MsgStep \/ SweepStep \/ EventStep
            /\ \A i \in 1..nsess : fwd'[i] = fwd[i] /\ rep'[i] = rep[i]]_vars
    /\ [](\A k \in DOMAIN sessions : ~obClosed[sessions[k]] /\ connOpen[sessions[k]])
    /\ [](\A k1, k2 \in DOMAIN sessions : sessions[k1] = sessions[k2] => k1 = k2)
    /\ [][\A i \in Sids : TornDown(i) =>
            /\ ~obClosed[i] /\ connOpen[i] /\ obClosed'[i] /\ ~connOpen'[i]
            /\ \E k \in DOMAIN sessions : sessions[k] = i /\ Removed(k)
            /\ \/ SweepStep /\ sessionEvents' = sessionEvents
               \/ EventStep /\ tickPending' = tickPending]_vars
    /\ [][\A i \in Sids : obClosed[i] => obClosed'[i] /\ ~connOpen'[i]]_vars

\* C14 witness: a session has been torn down and is out of the table while a
\* failure event sent by one of its tasks is still waiting for the manager.
C14_Witness ==
    \E n \in DOMAIN sessionEvents :
       /\ obClosed[sessionEvents[n].sid] /\ ~connOpen[sessionEvents[n].sid]
       /\ sessionEvents[n].key \notin DOMAIN sessions

\* ------------------------------------------------------------------------
\* Failure reports
\* ------------------------------------------------------------------------
\* In this step a task of session i stops and reports a failure.
Reports(i) ==
    \/ fwd[i].pc = "write" /\ fwd'[i].pc = "done"
    \/ rep[i].pc \in {"read", "respond"} /\ rep'[i].pc = "done"

\* C15: the failure-event channel never holds more than its capacity; a report
\* made while it is full is discarded with a queue-overflow log line and leaves
\* the table, the queues and the sockets as they are; any other report appends
\* one event with the session's key; and a task that has failed can always
\* make its report, whatever the channel holds.
C15_ReportNeverBlocks ==
    /\ [](Len(sessionEvents) <= EventCap)
    /\ [][\A i \in Sids : Reports(i) =>
            IF Len(sessionEvents) >= EventCap
            THEN /\ sessionEvents' = sessionEvents
                 /\ "Session event queue full" \in logged'
                 /\ UNCHANGED <<sessions, outbound, obClosed, connOpen>>
            ELSE /\ Len(sessionEvents') = Len(sessionEvents) + 1
                 /\ sessionEvents'[Len(sessionEvents')].key = sess[i].id
                 /\ "Session event queue full" \notin logged'
                 /\ UNCHANGED <<sessions, outbound, obClosed, connOpen>>]_vars
    /\ [](\A i \in Sids :
            /\ (Running("udp") /\ fwd[i].pc = "write" /\ ~connOpen[i])
                  => ENABLED FwdWriteErr(i)
            /\ (Running("udp") /\ rep[i].pc = "read" /\ ~connOpen[i])
                  => ENABLED RepReadErr(i))

\* C15 witness: a report has just been discarded, the channel being full.
C15_Witness ==
    /\ "Session event queue full" \in logged
    /\ Len(sessionEvents) = EventCap

\* ------------------------------------------------------------------------
\* config.ParseRoutes
\* ------------------------------------------------------------------------
\* Characters of a flag value: two that are no separators, and the separators.
Chars == {"a", "b", ":", ","}

Flags == UNION {[1..n -> Chars] : n \in 0..MaxFlagLen}

\* strings.Split(s, sep) for a one-character sep: the substrings between the
\* occurrences of sep, one more than there are occurrences.
RECURSIVE Split(_, _)
Split(s, sep) ==
    IF \E i \in 1..Len(s) : s[i] = sep
    THEN LET i == CHOOSE j \in 1..Len(s) : s[j] = sep /\ \A m \in 1..(j - 1) : s[m] # sep
         IN <<SubSeq(s, 1, i - 1)>> \o Split(SubSeq(s, i + 1, Len(s)), sep)
    ELSE <<s>>

\* Mutant of ParseParts: an element that is no route is skipped.
RECURSIVE ParsePartsSkip(_, _)
ParsePartsSkip(parts, routes) ==
    IF parts = <<>> THEN [called |-> TRUE, routes |-> routes, err |-> "nil"]
    ELSE LET segments == Split(Head(parts), ":")
         IN IF Len(segments) # 3
            THEN ParsePartsSkip(Tail(parts), routes)
            ELSE ParsePartsSkip(Tail(parts),
                    Append(routes, [LocalPort |-> segments[1], RemoteIP |-> segments[2],
                                    RemotePort |-> segments[3]]))

\* for _, part := range parts {...}; return routes, nil
RECURSIVE ParseParts(_, _)
ParseParts(parts, routes) ==
    IF parts = <<>> THEN [called |-> TRUE, routes |-> routes, err |-> "nil"]
    ELSE LET segments == Split(Head(parts), ":")
         IN IF Len(segments) # 3
            THEN [called |-> TRUE, routes |-> <<>>, err |-> "invalid route format"]
            ELSE ParseParts(Tail(parts),
                    Append(routes, [LocalPort |-> segments[1], RemoteIP |-> segments[2],
                                    RemotePort |-> segments[3]]))

ParseRoutes(flag) ==
    IF flag = <<>> THEN [called |-> TRUE, routes |-> <<>>, err |-> "nil"]
    ELSE ParseParts(Split(flag, ","), <<>>)

\* main calls config.ParseRoutes(*routesFlag).
CallParseRoutes ==
    /\ proto = "none" /\ ~ret.called
    /\ ret' = ParseRoutes(routesFlag)
    /\ UNCHANGED <<routesFlag, proto, listen, alive, logged, budget, nfaults,
                   udpVars, tcpVars, logVars>>

InitParse ==
    /\ InitState /\ proto = "none"
    /\ budget = [datagrams |-> 0, horizon |-> 0, replies |-> 0, conns |-> 0, bytes |-> 0]
    /\ routesFlag \in Flags /\ ret = NotCalled

ParseNext == CallParseRoutes

SpecParse == InitParse /\ [][ParseNext]_vars

\* The element of the comma-separated list a position of the flag lies in,
\* counted from 0, and the number of colons of an element.
ElementAt(i) == Cardinality({j \in 1..(i - 1) : routesFlag[j] = ","})
LastElement == ElementAt(Len(routesFlag) + 1)
Colons(e) == Cardinality({i \in 1..Len(routesFlag) : routesFlag[i] = ":" /\ ElementAt(i) = e})
WellFormed == \A e \in 0..LastElement : Colons(e) = 2

RouteText(r) == r.LocalPort \o <<":">> \o r.RemoteIP \o <<":">> \o r.RemotePort

RECURSIVE JoinRoutes(_)
JoinRoutes(rs) ==
    IF rs = <<>> THEN <<>>
    ELSE IF Len(rs) = 1 THEN RouteText(rs[1])
    ELSE RouteText(rs[1]) \o <<",">> \o JoinRoutes(Tail(rs))

NoSeparator(s) == \A i \in 1..Len(s) : s[i] \notin {":", ","}

\* C16: for an empty flag ParseRoutes returns no routes and no error; if every
\* element has two colons it returns no error and one route per element, whose
\* fields hold no separator and, written LOCALPORT:REMOTEIP:REMOTEPORT and
\* joined by commas in order, give the flag back; otherwise it returns an
\* error and no routes.
C16_ParseRoutesAllOrNothing ==
    ret.called =>
       IF routesFlag = <<>> THEN ret.routes = <<>> /\ ret.err = "nil"
       ELSE IF WellFormed
       THEN /\ ret.err = "nil"
            /\ Len(ret.routes) = LastElement + 1
            /\ JoinRoutes(ret.routes) = routesFlag
            /\ \A n \in 1..Len(ret.routes) :
                  /\ NoSeparator(ret.routes[n].LocalPort)
                  /\ NoSeparator(ret.routes[n].RemoteIP)
                  /\ NoSeparator(ret.routes[n].RemotePort)
       ELSE ret.err # "nil" /\ ret.routes = <<>>

\* C16 witness: ParseRoutes was called on a flag of two elements of which the
\* first is a route and the second is not.
C16_Witness ==
    /\ ret.called
    /\ LastElement = 1 /\ Colons(0) = 2 /\ Colons(1) # 2

\* ------------------------------------------------------------------------
\* The worker pool and the dials
\* ------------------------------------------------------------------------
\* The connections whose net.Dial is in progress.
Dialing == {c \in Conns : h[c].pc = "dial"}

\* C17: no more dials are in progress at the same time than there are workers.
C17_DialsBoundedByWorkers == Cardinality(Dialing) <= NumWorkers

\* The connections whose relay is established: dialled, and not yet finished.
Established == {c \in Conns : h[c].pc = "wait"}

\* C18: a connection the accept loop holds for hand-off is eventually taken by
\* a worker, and a worker at its receive can take it whatever the state of the
\* connections handed on before.
C18_AcceptedIsHandedOff ==
    /\ \A c \in Conns :
          (acc.pc = "send" /\ acc.conn = c)
             ~> (h[c].pc # "none" \/ \E w \in Workers : worker[w].conn = c)
    /\ [](\A w \in Workers :
            (Running("tcp") /\ acc.pc = "send" /\ worker[w].pc = "recv")
               => ENABLED HandOff(w))

\* C18 witness: more relays are established than there are workers.
C18_Witness == Cardinality(Established) > NumWorkers

\* ------------------------------------------------------------------------
\* The two evictions
\* ------------------------------------------------------------------------
\* In this step the sessions under the keys of K, and no others, are evicted:
\* queue closed, socket closed, entry removed; every other entry, and the
\* closed flags of every other session, stay as they are.
EvictsExactly(K) ==
    /\ DOMAIN sessions' = DOMAIN sessions \ K
    /\ \A k \in DOMAIN sessions' : sessions'[k] = sessions[k]
    /\ \A k \in K : obClosed'[sessions[k]] /\ ~connOpen'[sessions[k]]
    /\ \A i \in Sids : (\A k \in K : sessions[k] # i) =>
          obClosed'[i] = obClosed[i] /\ connOpen'[i] = connOpen[i]
    /\ UNCHANGED <<outbound, sess>>

\* C19: the handling of a failure event whose key is in the table evicts the
\* session under that key, and no other, and logs the event's reason; the
\* handling of an event whose key is not in the table changes nothing but the
\* event channel.
C19_EventEvicts ==
    [][EventStep =>
         LET ev == Head(sessionEvents)
         IN IF ev.key \in DOMAIN sessions
            THEN /\ EvictsExactly({ev.key})
                 /\ {"Closed UDP session", ev.reason} \subseteq logged'
            ELSE /\ UNCHANGED <<sessions, sess, outbound, obClosed, connOpen>>
                 /\ logged' = {}]_vars

\* C19 witness: a failure event has just evicted a session while another
\* session stays in the table.
C19_Witness ==
    /\ "Closed UDP session" \in logged
    /\ sessions # <<>>
    /\ \E i \in 1..nsess : obClosed[i]

\* The other case: an event for a key that is not in the table is at the head
\* of the channel.
C19_WitnessUnknownKey ==
    sessionEvents # <<>> /\ Head(sessionEvents).key \notin DOMAIN sessions

\* C20: a sweep evicts the sessions whose last activity is more than 60 seconds
\* back, and no others, and logs it; every other session keeps its entry, its
\* queue, its socket and its timestamp.
C20_SweepEvictsIdle ==
    [][SweepStep =>
         LET K == {k \in DOMAIN sessions : now - Session(k).lastActive > IdleTimeout}
         IN /\ EvictsExactly(K)
            /\ K # {} => "Closed idle UDP session" \in logged'
            /\ K = {} => logged' = {}]_vars

\* C20 witness: a sweep has just evicted a session and kept another.
C20_Witness ==
    /\ "Closed idle UDP session" \in logged
    /\ sessions # <<>>

\* ------------------------------------------------------------------------
\* The forwarder and the replier of a session
\* ------------------------------------------------------------------------
\* What the forwarder of session i has written to the remote socket so far.
WrittenBy(i) ==
    LET q == toRemote[ClientOf(sess[i].clientAddr)]
    IN Cardinality({n \in DOMAIN q : q[n].sid = i})

\* In this step the forwarder of session i leaves its Write with an error.
WriteFails(i) ==
    /\ fwd[i].pc = "write" /\ fwd'[i] # fwd[i]
    /\ "Error sending UDP payload" \in logged'

\* C21: a failed Write of the forwarder is followed, in the same step, by one
\* report of "write failure" under the session's key (queued, or discarded
\* with the overflow log line when the channel is full) and by the end of the
\* forwarder, with nothing written and the queue left as it is; a forwarder
\* that has ended stays so and writes nothing more.
C21_WriteFailureEndsForwarder ==
    /\ [][\A i \in Sids : WriteFails(i) =>
            /\ fwd'[i].pc = "done"
            /\ toRemote' = toRemote /\ outbound' = outbound
            /\ IF Len(sessionEvents) < EventCap
               THEN sessionEvents' = Append(sessionEvents,
                       [key |-> sess[i].id, reason |-> "write failure", sid |-> i])
               ELSE /\ sessionEvents' = sessionEvents
                    /\ "Session event queue full" \in logged']_vars
    /\ [][\A i \in 1..nsess : fwd[i].pc = "done" =>
            fwd'[i].pc = "done" /\ WrittenBy(i)' = WrittenBy(i)]_vars

\* C21 witness: the forwarder of a session has just ended on a failed Write
\* with a payload still in the session's queue and its report in the channel.
C21_Witness ==
    /\ "Error sending UDP payload" \in logged
    /\ \E i \in 1..nsess :
          /\ fwd[i].pc = "done" /\ outbound[i] # <<>>
          /\ \E n \in DOMAIN sessionEvents :
                sessionEvents[n].sid = i /\ sessionEvents[n].reason = "write failure"

\* In this step the Read of the replier of session i returns a timeout: its
\* deadline has passed, and it returns neither a reply nor another error.
ReadTimesOut(i) ==
    /\ rep[i].pc = "read" /\ rep[i].deadline = 0 /\ rep'[i] # rep[i]
    /\ rep'[i].pc # "respond"
    /\ "Error reading UDP reply" \notin logged'

\* C22: on a read timeout the replier of a session whose last activity is less
\* than 60 seconds back goes on reading with a deadline 5 seconds ahead and
\* reports nothing; otherwise it reports "remote idle timeout" (queued, or
\* discarded with the overflow log line) and ends.
C22_TimeoutKeepsActiveReplier ==
    [][\A i \in Sids : ReadTimesOut(i) =>
          IF now - sess[i].lastActive < 60
          THEN /\ rep'[i] = [pc |-> "read", data |-> 0, deadline |-> now + 5]
               /\ sessionEvents' = sessionEvents
          ELSE /\ rep'[i].pc = "done"
               /\ IF Len(sessionEvents) < EventCap
                  THEN sessionEvents' = Append(sessionEvents,
                          [key |-> sess[i].id, reason |-> "remote idle timeout", sid |-> i])
                  ELSE /\ sessionEvents' = sessionEvents
                       /\ "Session event queue full" \in logged']_vars

\* C22 witness: 30 seconds or more into the run, with no reply ever read, the
\* replier of a session created earlier reads with a deadline 5 seconds ahead:
\* a timeout has renewed it.
C22_Witness ==
    \E i \in 1..nsess :
       /\ rep[i].pc = "read" /\ rep[i].deadline = now + ReadDeadline
       /\ nreplies = 0 /\ now >= CleanupInterval
       /\ sess[i].lastActive < now

\* The other case: the replier has ended on a timeout and its report waits.
C22_WitnessIdle ==
    \E n \in DOMAIN sessionEvents :
       /\ sessionEvents[n].reason = "remote idle timeout"
       /\ rep[sessionEvents[n].sid].pc = "done"

\* ------------------------------------------------------------------------
\* C24: the read loop never discards a datagram it has read: the message it
\* holds goes into the ingestion channel, and while the channel holds its
\* capacity the read loop stays where it is, with the message, until the manager
\* has taken one; the channel never holds more than its capacity; it changes
\* only by an append at the tail or a receive at the head.
\* ------------------------------------------------------------------------
C24_ReadLoopBlocksNeverDrops ==
    /\ [](Len(msgChan) <= MsgChanCap)
    /\ [][rl.pc = "send" /\ rl' # rl =>
            /\ Len(msgChan) < MsgChanCap
            /\ msgChan' = Append(msgChan, rl.msg)
            /\ rl'.pc = "read"]_vars
    /\ [][rl.pc = "read" /\ rl' # rl =>
            /\ rl'.pc = "send" /\ msgChan' = msgChan
            /\ \E c \in Clients : /\ nread' = [nread EXCEPT ![c] = @ + 1]
                                  /\ rl'.msg = Datagram(c, nread'[c])]_vars
    /\ [][msgChan' # msgChan =>
            \/ rl.pc = "send" /\ msgChan' = Append(msgChan, rl.msg)
            \/ msgChan # <<>> /\ msgChan' = Tail(msgChan) /\ rl' = rl]_vars

\* The read loop waits with the third datagram of a burst while the channel is
\* full of the first two.
C24_Witness ==
    /\ rl.pc = "send" /\ Len(msgChan) = MsgChanCap
    /\ \E c \in Clients : rl.msg = Datagram(c, nread[c])
    /\ nsess = 0

\* ------------------------------------------------------------------------
\* Creation of a session
\* ------------------------------------------------------------------------
\* The payloads the forwarder of session i has written to the remote, in order.
SentBy(i) ==
    LET q == SelectSeq(toRemote[ClientOf(sess[i].clientAddr)], LAMBDA e : e.sid = i)
    IN [n \in 1..Len(q) |-> q[n].data]

\* The payloads of session i in the order its forwarder writes them: those
\* written, the one being written, those queued.
Pipeline(i) ==
    SentBy(i) \o (IF fwd[i].pc = "write" THEN <<fwd[i].data>> ELSE <<>>) \o outbound[i]

\* C26: the table gains a key, and a session is allocated, only in a step in
\* which the manager takes a datagram of a client without an entry off the
\* ingestion channel and neither resolve nor dial fails; that step puts the
\* datagram, alone, on the new session's queue and starts the session's two
\* tasks; and the order in which a running forwarder writes is never changed
\* afterwards (payloads are only added behind), so the first payload the
\* forwarder writes is the datagram that made the session.
C26_SessionCreatedByFirstDatagram ==
    /\ [][(nsess' # nsess \/ DOMAIN sessions' \ DOMAIN sessions # {}) =>
            /\ MsgStep
            /\ SessionKey(Head(msgChan).addr) \notin DOMAIN sessions
            /\ ~UDPDialFails
            /\ nsess' = nsess + 1
            /\ DOMAIN sessions' = DOMAIN sessions \cup {SessionKey(Head(msgChan).addr)}
            /\ \E n \in Sids :
                  /\ n = nsess + 1
                  /\ sessions'[SessionKey(Head(msgChan).addr)] = n
                  /\ sess'[n].clientAddr = Head(msgChan).addr
                  /\ Pipeline(n)' = <<Head(msgChan).data>>
                  /\ outbound'[n] = <<Head(msgChan).data>>
                  /\ fwd'[n].pc = "recv" /\ rep'[n].pc = "read"
                  /\ connOpen'[n] /\ ~obClosed'[n]]_vars
    /\ [][\A i \in 1..nsess :
            /\ IsPrefix(SentBy(i), SentBy(i)')
            /\ fwd'[i].pc # "done" => IsPrefix(Pipeline(i), Pipeline(i)')]_vars
    /\ [](\A i \in 1..nsess : fwd[i].pc # "done" => Pipeline(i) # <<>>)

\* C26 witness: the forwarder of a session has written the datagram that made
\* the session and a later datagram of the same client waits behind it.
C26_Witness ==
    \E i \in 1..nsess :
        /\ SentBy(i) = <<1>> /\ outbound[i] = <<2>>
        /\ fwd[i].pc = "recv"

\* ------------------------------------------------------------------------
\* C27: a step in which resolve or dial fails is the manager's handling of the
\* datagram of a client without an entry; it writes the failure to the log,
\* takes the datagram off the ingestion channel and puts it nowhere, and leaves
\* the table, the session heap, queues, sockets, tasks and the event channel
\* as they are; and whenever the datagram at the head of the ingestion channel
\* is of a client without an entry, the manager resolves and dials for it,
\* with either outcome possible, whatever happened to earlier datagrams.
\* ------------------------------------------------------------------------
C27_FailedDialDiscardsDatagram ==
    /\ [][UDPDialFails =>
            /\ MsgStep
            /\ SessionKey(Head(msgChan).addr) \notin DOMAIN sessions
            /\ SessionKey(Head(msgChan).addr) \notin DOMAIN sessions'
            /\ UNCHANGED <<tableVars, fwd, rep, sessionEvents, toRemote, toClient>>
            /\ \E c \in Clients, k \in Payloads :
                 /\ Head(msgChan) = Datagram(c, k)
                 /\ InFlight(c, k)' = InFlight(c, k) - 1
            /\ AllInFlight' = AllInFlight - 1]_vars
    /\ [](Running("udp") /\ msgChan # <<>>
            /\ SessionKey(Head(msgChan).addr) \notin DOMAIN sessions
          => /\ ENABLED (ManagerMsgNew /\ nsess' = nsess + 1)
             /\ ENABLED (ManagerMsgNew /\ UDPDialFails))

\* C27 witness: the first datagram of a client was discarded on a failed dial
\* (it is nowhere in the relay, nothing failed on a socket and no session was
\* made for it), and the client's second datagram has made the first session.
C27_Witness ==
    \E c \in Clients :
        /\ nsess = 1 /\ sess[1].clientAddr = ClientAddr(c)
        /\ nread[c] = 2 /\ Pipeline(1) = <<2>>
        /\ InFlight(c, 1) = 0 /\ Written(c, 1) = 0
        /\ nfaults = 0 /\ connOpen[1] /\ ~obClosed[1]

\* ------------------------------------------------------------------------
\* Replies
\* ------------------------------------------------------------------------
\* The replier of session i holds a reply it has read from the session's socket.
HoldsReply(i) == rep[i].pc = "respond"

\* C28: the client address of a session never changes; whenever something is
\* written to a client through the listening socket, it is the one reply the
\* replier of one session holds, that session is the client's own, and nothing
\* is written to any other client in that step; so every reply a client has
\* received was read from the socket of a session of that client.
C28_ReplyToOwnClient ==
    /\ [][\A i \in 1..nsess : sess'[i].clientAddr = sess[i].clientAddr]_vars
    /\ [][toClient' # toClient =>
            \E i \in 1..nsess :
               /\ HoldsReply(i) /\ ~HoldsReply(i)'
               /\ \A c \in Clients :
                    toClient'[c] = IF sess[i].clientAddr = ClientAddr(c)
                                   THEN Append(toClient[c], [sid |-> i, data |-> rep[i].data])
                                   ELSE toClient[c]
               /\ \A o \in Sids \ {i} : rep'[o] = rep[o]]_vars
    /\ [](\A c \in Clients : \A n \in DOMAIN toClient[c] :
             /\ toClient[c][n].sid \in 1..nsess
             /\ sess[toClient[c][n].sid].clientAddr = ClientAddr(c))

\* C28 witness: two clients have a session each, the remote has answered on
\* both sockets, and each client has received the reply read from the socket
\* of its own session and nothing else.
C28_Witness ==
    /\ nsess = 2 /\ sess[1].clientAddr # sess[2].clientAddr
    /\ toClient[ClientOf(sess[1].clientAddr)] = <<[sid |-> 1, data |-> 1]>>
    /\ toClient[ClientOf(sess[2].clientAddr)] = <<[sid |-> 2, data |-> 2]>>
    /\ "Error writing UDP reply" \notin logged

\* Two repliers hold a reply each at the same time.
C28_WitnessBoth ==
    /\ nsess = 2 /\ sess[1].clientAddr # sess[2].clientAddr
    /\ HoldsReply(1) /\ HoldsReply(2)

\* ------------------------------------------------------------------------
\* C29: a read into the receive buffer changes no message of the ingestion
\* channel, no payload of an outbound queue and no payload a forwarder holds,
\* and the message made of it holds the bytes just read; a payload moves from
\* the read loop to the channel, from the channel to a queue and from a queue
\* to its forwarder as it is; so every queued message of a client is one of
\* the datagrams read from that client, each at most once and in the order
\* they were read.
\* ------------------------------------------------------------------------
C29_QueuedPayloadsKeepBytes ==
    /\ [][(rl'.buf # rl.buf \/ nread' # nread) =>
            /\ msgChan' = msgChan /\ outbound' = outbound /\ fwd' = fwd
            /\ rl'.pc = "send" /\ rl'.msg.data = rl'.buf
            /\ \E c \in Clients : rl'.msg = Datagram(c, nread'[c]) /\ nread'[c] = nread[c] + 1]_vars
    /\ [][rl.pc = "send" => rl'.msg = rl.msg \/ msgChan' = Append(msgChan, rl.msg)]_vars
    /\ [][\A i \in Sids :
            /\ outbound'[i] # outbound[i] =>
                 \/ /\ outbound[i] # <<>> /\ outbound'[i] = Tail(outbound[i])
                    /\ fwd'[i].data = Head(outbound[i])
                 \/ /\ MsgStep /\ outbound'[i] = Append(outbound[i], Head(msgChan).data)
                    /\ sess'[i].clientAddr = Head(msgChan).addr
            /\ fwd[i].pc = "write" /\ fwd'[i].pc = "write" => fwd'[i].data = fwd[i].data]_vars
    /\ [](\A n \in DOMAIN msgChan : \E c \in Clients :
             /\ msgChan[n].addr = ClientAddr(c) /\ msgChan[n].data \in 1..nread[c]
             /\ \A m \in DOMAIN msgChan :
                   m < n /\ msgChan[m].addr = msgChan[n].addr => msgChan[m].data < msgChan[n].data)
    /\ [](\A i \in 1..nsess : \A n \in DOMAIN outbound[i] :
             /\ outbound[i][n] \in 1..nread[ClientOf(sess[i].clientAddr)]
             /\ \A m \in DOMAIN outbound[i] : m < n => outbound[i][m] < outbound[i][n])

\* C29 witness: the first datagram of a client waits in the ingestion channel
\* while the receive buffer holds the bytes of the client's second datagram.
C29_Witness ==
    /\ rl.pc = "send" /\ rl.buf = 2
    /\ msgChan # <<>> /\ msgChan[1] = Datagram(ClientOf(rl.msg.addr), 1)
    /\ \E i \in 1..nsess : outbound[i] # <<>>

\* ------------------------------------------------------------------------
\* Isolation of TCP connections
\* ------------------------------------------------------------------------
\* All the relay holds for connection c: its goroutine, its done channel, its
\* copy tasks, what they have written, and its two sockets.
ConnState(c) == <<h[c], done[c], cp[c], wrote[c], cliSock[c], srvSock[c]>>

\* A step that ends something of connection c: a failed dial, a copy task that
\* stops on an error or at the end of the stream, or the close of the sockets.
EndsSomething(c) ==
    \/ h'[c].pc \in {"failed", "closed"} /\ h'[c].pc # h[c].pc
    \/ \E d \in Dirs : cp[c][d].pc # "done" /\ cp'[c][d].pc = "done"

\* C30: no step changes the state of two connections; a step that ends
\* something of one connection changes nothing of any other connection, of
\* its peers, of the accept loop or of the workers, and leaves the process
\* running; and what a connection's copy tasks and goroutine can do next
\* depends on that connection's own state only: a task with bytes to write and
\* an open destination can write, a task with unread bytes and an open source
\* can read, a goroutine with both signals can finish.
C30_ConnectionsIsolated ==
    /\ [][\A a \in Conns : \A b \in Conns \ {a} :
            ConnState(a)' = ConnState(a) \/ ConnState(b)' = ConnState(b)]_vars
    /\ [][\A a \in Conns : EndsSomething(a) =>
            /\ \A b \in Conns \ {a} :
                  /\ ConnState(b)' = ConnState(b)
                  /\ client'[b] = client[b] /\ remote'[b] = remote[b]
            /\ UNCHANGED <<acc, nacc, worker, alive, listen>>]_vars
    /\ [](Running("tcp") =>
            \A b \in Conns : \A d \in Dirs :
               /\ (cp[b][d].pc = "write" /\ DstSock(b, d) = "open") => ENABLED CopyWrite(b, d)
               /\ (cp[b][d].pc = "read" /\ SrcSock(b, d) = "open" /\ Unread(b, d) # <<>>)
                     => ENABLED CopyRead(b, d)
               /\ (h[b].pc = "wait" /\ done[b] >= DonesNeeded) => ENABLED Finish(b))

\* C30 witness: the dial of one connection has just failed and its client
\* socket is closed, while another connection is relayed: both its sockets are
\* open, bytes have passed, and a copy task holds bytes it can write.
C30_Witness ==
    \E a \in Conns : \E b \in Conns \ {a} :
        /\ "Failed to connect to TCP server" \in logged
        /\ h[a].pc = "failed" /\ cliSock[a] = "closed"
        /\ h[b].pc = "wait" /\ cliSock[b] = "open" /\ srvSock[b] = "open"
        /\ wrote[b]["c2s"] # <<>>
        /\ cp[b]["s2c"].pc = "write" /\ ENABLED CopyWrite(b, "s2c")

\* A copy task of one connection has just stopped on an error while the other
\* connection is open and relaying.
C30_WitnessCopyError ==
    \E a \in Conns : \E b \in Conns \ {a} :
        /\ "Error copying" \in logged
        /\ \E d \in Dirs : cp[a][d].pc = "done"
        /\ h[b].pc = "wait" /\ cliSock[b] = "open" /\ srvSock[b] = "open"
        /\ \E d \in Dirs : cp[b][d].pc = "write"

\* ------------------------------------------------------------------------
\* C25: the manager waits nowhere but in its select, so a sweep tick or a
\* failure event that is pending can be taken by the manager at once.
\* ------------------------------------------------------------------------
C25_ManagerWaitsOnlyInSelect ==
    Running("udp") =>
        /\ tickPending => ENABLED ManagerSweep
        /\ sessionEvents # <<>> => ENABLED ManagerEvent

\* The manager is inside net.ResolveUDPAddr while a failure event of a session
\* waits in the event channel.
C25_EventWaitsBehindResolve == ~(mgr.pc = "resolve" /\ sessionEvents # <<>>)

\* ------------------------------------------------------------------------
\* The life of a session and of its two tasks
\* ------------------------------------------------------------------------
\* Session i is the one the table holds under its key.
InTable(i) == \E k \in DOMAIN sessions : sessions[k] = i

\* A report sent by a task of session i waits in the event channel.
Reported(i) == \E n \in DOMAIN sessionEvents : sessionEvents[n].sid = i

\* A task of session i has returned.
TaskExited(i) == i <= nsess /\ (fwd[i].pc = "done" \/ rep[i].pc = "done")

\* Session i is gone from the table and both its tasks have returned.
TornDownAll(i) == ~InTable(i) /\ fwd[i].pc = "done" /\ rep[i].pc = "done"

\* C23 as stated: every session made has one forwarder and one replier, and
\* whenever one of the two has returned, the session is eventually removed
\* from the table and the other returns as well.
C23_TornDownTogether ==
    /\ [](\A i \in Sids : (i <= nsess) = (fwd[i].pc # "none")
                       /\ (i <= nsess) = (rep[i].pc # "none"))
    /\ \A i \in Sids : TaskExited(i) ~> TornDownAll(i)

\* C23, amended: every session made has one forwarder and one replier; a
\* session that has left the table has its queue and its socket closed, and
\* both its tasks eventually return; when a task of a session in the table
\* has returned and its report waits in the event channel, the session is
\* eventually removed and the other task returns as well.  (A report that is
\* dropped because the event channel is full leaves the session in the table.)
C23_TornDownWhenReported ==
    /\ [](\A i \in Sids : (i <= nsess) = (fwd[i].pc # "none")
                       /\ (i <= nsess) = (rep[i].pc # "none"))
    /\ [](\A i \in 1..nsess : ~InTable(i) => obClosed[i] /\ ~connOpen[i])
    /\ [](\A i \in 1..nsess : InTable(i) => ~obClosed[i] /\ connOpen[i])
    /\ \A i \in Sids : (i <= nsess /\ ~InTable(i)) ~> TornDownAll(i)
    /\ \A i \in Sids : (TaskExited(i) /\ Reported(i)) ~> TornDownAll(i)

\* C23 witness: a forwarder returned on a failed write, its report was taken
\* by the manager, and the session is gone with both tasks returned.
C23_Witness ==
    \E i \in 1..nsess :
        /\ TornDownAll(i) /\ obClosed[i] /\ ~connOpen[i]
        /\ outbound[i] # <<>>
        /\ nfaults = 1 /\ now = 0

\* The forwarder of a session has returned, its report was dropped, and more
\* than a cleanup interval later the session is in the table with its replier
\* reading, while a datagram of its client is dropped at the full queue.
C23_WitnessDropped ==
    \E i \in 1..nsess :
        /\ InTable(i) /\ fwd[i].pc = "done" /\ rep[i].pc = "read" /\ ~Reported(i)
        /\ "Dropping UDP packet" \in logged /\ sess[i].lastActive = now
        /\ \E j \in 1..nsess : sess[j].lastActive < 0

\* ------------------------------------------------------------------------
\* Failure events of a session that is gone
\* ------------------------------------------------------------------------
\* The event at the head of the channel was sent by a task of a session that
\* is no longer the one the table holds under the event's key.
StaleEvent ==
    /\ sessionEvents # <<>>
    /\ Head(sessionEvents).key \in DOMAIN sessions
    /\ sessions[Head(sessionEvents).key] # Head(sessionEvents).sid

\* C31: a failure event evicts only the session whose forwarder or replier
\* reported it: when the manager handles an event of an earlier session of
\* the same client, the later session stays in the table with its queue and
\* its socket open.
C31_StaleEventKeepsNewSession ==
    [][(EventStep /\ StaleEvent) =>
          /\ sessions' = sessions
          /\ \A k \in DOMAIN sessions :
                ~obClosed'[sessions[k]] /\ connOpen'[sessions[k]]]_vars

\* ------------------------------------------------------------------------
\* The replier's idle decision
\* ------------------------------------------------------------------------
\* The event at the head of the channel is the idle report of the replier of
\* the session the table holds under the event's key.
OwnIdleEvent ==
    /\ sessionEvents # <<>>
    /\ Head(sessionEvents).reason = "remote idle timeout"
    /\ Head(sessionEvents).key \in DOMAIN sessions
    /\ sessions[Head(sessionEvents).key] = Head(sessionEvents).sid

\* C32: when the manager evicts a session on its replier's remote idle
\* timeout event, the session's last activity is at least 60 seconds old at
\* that moment; a datagram handled after the replier's decision saves the
\* session from that event.
C32_IdleEventEvictsIdleSession ==
    [][(EventStep /\ OwnIdleEvent /\ Removed(Head(sessionEvents).key)) =>
          now - sess[Head(sessionEvents).sid].lastActive >= IdleTimeout]_vars

\* ------------------------------------------------------------------------
\* Open queues and sockets of the table
\* ------------------------------------------------------------------------
\* In this step a payload is sent on the outbound queue of session i.
SendsOn(i) == Len(outbound'[i]) > Len(outbound[i])

\* In this step the outbound queue of session i is closed.
Closes(i) == obClosed'[i] /\ (~obClosed[i] \/ (InTable(i) /\ ~InTable(i)'))

\* C33: every session in the table has an open outbound queue and an open
\* remote socket, and a session whose queue is closed is not in the table;
\* so every send is made by the manager handling a datagram, on the open
\* queue of a session that is in the table when the step ends, and every
\* close is of a queue that was open.
C33_TableSessionsOpen ==
    /\ [](\A i \in Sids : InTable(i) => ~obClosed[i] /\ connOpen[i])
    /\ [](\A i \in Sids : obClosed[i] => ~InTable(i) /\ ~connOpen[i])
    /\ [][\A i \in Sids : SendsOn(i) => ~obClosed[i] /\ InTable(i)' /\ MsgStep]_vars
    /\ [][\A i \in Sids : Closes(i) => ~obClosed[i] /\ InTable(i)]_vars

\* C33 witness: a session has been evicted, its queue closed, and the manager
\* has since sent a payload on the open queue of the later session of the
\* same client.
C33_Witness ==
    \E i, j \in Sids :
       /\ i < j /\ j <= nsess /\ sess[i].id = sess[j].id
       /\ obClosed[i] /\ ~InTable(i)
       /\ InTable(j) /\ ~obClosed[j] /\ connOpen[j] /\ outbound[j] # <<>>

\* ------------------------------------------------------------------------
\* What counts as activity
\* ------------------------------------------------------------------------
\* In this step the replier of session i has relayed a reply to the client.
Relays(i) == rep[i].pc = "respond" /\ rep'[i].pc = "read"

\* C35: the last-activity time of a session changes only when the manager
\* handles a datagram of that session's client, to the time of the handling;
\* a relayed reply leaves it as it is; and a sweep removes every session whose
\* client has been silent for more than 60 seconds, whatever was relayed to
\* the client in the meantime.
C35_OnlyClientDatagramsRefresh ==
    /\ [][\A i \in Sids : sess'[i].lastActive # sess[i].lastActive =>
            /\ MsgStep
            /\ SessionKey(Head(msgChan).addr) = sess'[i].id
            /\ sess'[i].lastActive = now]_vars
    /\ [][\A i \in Sids : Relays(i) => sess' = sess]_vars
    /\ [][SweepStep =>
            \A k \in DOMAIN sessions :
               now - Session(k).lastActive > IdleTimeout => Removed(k)]_vars

\* C35 witness: a sweep has just removed a session as idle whose replier had
\* relayed a reply at that very instant, more than 60 seconds after the last
\* datagram of the client.
C35_Witness ==
    \E i \in Sids :
       /\ i <= nsess /\ ~InTable(i) /\ obClosed[i]
       /\ logged = {"Closed idle UDP session"}
       /\ now - sess[i].lastActive > IdleTimeout
       /\ rep[i].pc = "read" /\ rep[i].deadline = now + ReadDeadline
       /\ \E c \in Clients : \E n \in DOMAIN toClient[c] : toClient[c][n].sid = i

\* ------------------------------------------------------------------------
\* One handling per connection
\* ------------------------------------------------------------------------
\* The places that hold connection c: the accept loop before its send, a
\* worker between its receive and its go statement, the connection's own
\* goroutine.
Holders(c) ==
    (IF acc.conn = c THEN 1 ELSE 0)
    + Cardinality({w \in Workers : worker[w].conn = c})
    + (IF h[c].pc # "none" THEN 1 ELSE 0)

\* The progress of the goroutine of a connection.
Stage(pc) ==
    CASE pc = "none" -> 0
      [] pc = "start" -> 1
      [] pc = "dial" -> 2
      [] pc = "wait" -> 3
      [] pc = "failed" -> 4
      [] pc = "closed" -> 4

\* In this step the copy tasks of connection c are started.
StartsCopies(c) == \E d \in Dirs : cp[c][d].pc = "none" /\ cp'[c][d].pc # "none"

\* In this step the relay closes the client socket of connection c.
ClosesClient(c) == Stage(h[c].pc) < 4 /\ Stage(h'[c].pc) = 4

RelayStep ==
    /\ nfaults' = nfaults
    /\ \/ \E w \in Workers : HandOff(w) \/ WorkerSpawn(w)
       \/ \E c \in Conns :
            \/ HandlerStart(c)
            \/ DialFail(c)
            \/ DialOK(c)
            \/ Finish(c)
            \/ \E d \in Dirs :
                 \/ CopyRead(c, d)
                 \/ CopyEOF(c, d)
                 \/ CopyReadErr(c, d)
                 \/ CopyWrite(c, d)
                 \/ CopyWriteErr(c, d)

\* The scheduler runs every goroutine of the relay that can take a step; the
\* peers connect, send and close when they like, or never.
SpecTCPQuiet == SpecTCP /\ WF_vars(RelayStep)

\* The remote of connection c has closed and the remote-to-client copy has
\* returned at end of stream, in a run without I/O errors on open sockets.
RemoteEnded(c) ==
    /\ nfaults = 0
    /\ h[c].pc = "wait" /\ ~remote[c].open
    /\ cp[c]["s2c"].pc = "done" /\ cp[c]["s2c"].nread = Len(remote[c].sent)

\* The client of connection c has its connection open and has sent nothing.
ClientIdle(c) == client[c].open /\ client[c].sent = 0

\* C37: once the remote has closed and the remote-to-client copy has reached
\* end of stream, the relay eventually closes the client socket and logs the
\* connection as closed, unless the client closes or sends in the meantime.
C37_ClosedAfterRemoteClose ==
    \A c \in Conns :
       (RemoteEnded(c) /\ ClientIdle(c)) ~>
          \/ h[c].closedLogs = 1 /\ cliSock[c] = "closed"
          \/ ~ClientIdle(c)

\* ------------------------------------------------------------------------
\* The tasks of an evicted session
\* ------------------------------------------------------------------------
\* One step of the replier of a session, replies of the remote included.
ReplierRun(sid) ==
    \/ RepRead(sid)
    \/ RepTimeout(sid)
    \/ RepReadErr(sid)
    \/ RepRespondOK(sid)
    \/ RepRespondErr(sid)

\* The scheduler runs every forwarder and every replier that can take a step
\* without an I/O error on an open socket; the clients, the remote, the clock
\* and the manager go as they like.
TaskFairness ==
    \A sid \in Sids :
       /\ WF_vars(ForwarderStep(sid) /\ nfaults' = nfaults)
       /\ WF_vars(ReplierRun(sid) /\ nfaults' = nfaults)

\* The runs explored for the tasks of evicted sessions: a burst of datagrams
\* within one instant, or one datagram of each client within MaxTime seconds.
DrainScenarios ==
    {[datagrams |-> BurstDatagrams, horizon |-> 0, replies |-> MaxReplies,
      conns |-> 0, bytes |-> 0],
     [datagrams |-> MaxDatagrams - 1, horizon |-> MaxTime, replies |-> MaxReplies,
      conns |-> 0, bytes |-> 0]}

InitUDPDrain == InitState /\ ParseIdle /\ proto = "udp" /\ budget \in DrainScenarios

SpecUDPDrain == InitUDPDrain /\ [][UDPNext]_vars /\ TaskFairness

\* Session i has been made and is no longer in the table.
Evicted(i) == i <= nsess /\ ~InTable(i)

\* C36: once a session has been evicted, by the sweep or on a failure event,
\* its forwarder eventually returns and its replier eventually returns; the
\* forwarder returns when the closed queue is drained or at its next write,
\* which fails, the replier at its next read, which fails; a task that has
\* returned does not run again.
C36_EvictedTasksTerminate ==
    /\ \A i \in Sids : Evicted(i) ~> fwd[i].pc = "done"
    /\ \A i \in Sids : Evicted(i) ~> rep[i].pc = "done"
    /\ [][\A i \in Sids : Evicted(i) =>
            /\ (fwd[i].pc = "write" /\ fwd'[i].pc # "write") => fwd'[i].pc = "done"
            /\ (fwd[i].pc = "recv" /\ fwd'[i].pc = "done") => outbound[i] = <<>>
            /\ (rep[i].pc = "read" /\ rep'[i].pc # "read") => rep'[i].pc = "done"]_vars
    /\ [][\A i \in Sids :
            /\ fwd[i].pc = "done" => fwd'[i].pc = "done"
            /\ rep[i].pc = "done" => rep'[i].pc = "done"]_vars

\* C36 witness: a session evicted by the sweep as idle, whose replier had a
\* reply in hand, with its forwarder and its replier returned.
C36_Witness ==
    \E i \in Sids :
       /\ Evicted(i) /\ now - sess[i].lastActive > IdleTimeout
       /\ fwd[i].pc = "done" /\ rep[i].pc = "done"
       /\ \E c \in Clients : \E n \in DOMAIN toClient[c] : toClient[c][n].sid = i

\* A session evicted on a failure event within the instant it was made, its
\* queue not drained, with its forwarder and its replier returned, while a
\* later session of the same client is in the table.
C36_WitnessEvent ==
    \E i, j \in Sids :
       /\ i < j /\ Evicted(i) /\ InTable(j) /\ now = 0
       /\ fwd[i].pc = "done" /\ rep[i].pc = "done"

\* ------------------------------------------------------------------------
\* The session manager without failure events (pkg/proxy/udp.go)
\* ------------------------------------------------------------------------
\* session.remoteConn.Write(data) failed: the forwarder logs and returns.
PlainFwdWriteErr(sid) ==
    /\ Running("udp") /\ fwd[sid].pc = "write"
    /\ Fault(connOpen[sid])
    /\ fwd' = [fwd EXCEPT ![sid] = [pc |-> "done", data |-> 0]]
    /\ logged' = {"Error sending UDP payload"}
    /\ UNCHANGED <<udpTasks, clockVars, rl, nread, msgChan, tableVars, rep,
                   sessionEvents, nreplies, toRemote, toClient>>

\* The read deadline passed: continue while the session was active in the last
\* 60 seconds, else return.
PlainRepTimeout(sid) ==
    /\ Running("udp") /\ rep[sid].pc = "read"
    /\ connOpen[sid]
    /\ rep[sid].deadline = 0
    /\ rep' = [rep EXCEPT ![sid] =
                 IF now - sess[sid].lastActive < IdleTimeout
                 THEN [@ EXCEPT !.deadline = now + ReadDeadline]
                 ELSE [pc |-> "done", data |-> 0, deadline |-> 0]]
    /\ logged' = {}
    /\ UNCHANGED <<udpTasks, clockVars, rl, nread, msgChan, tableVars, fwd,
                   sessionEvents, wireVars>>

\* session.remoteConn.Read failed with an error that is no timeout: the replier
\* logs and returns.
PlainRepReadErr(sid) ==
    /\ Running("udp") /\ rep[sid].pc = "read"
    /\ Fault(connOpen[sid])
    /\ rep' = [rep EXCEPT ![sid] = [pc |-> "done", data |-> 0, deadline |-> 0]]
    /\ logged' = {"Error reading UDP reply"}
    /\ UNCHANGED <<udpTasks, clockVars, rl, nread, msgChan, tableVars, fwd,
                   sessionEvents, nreplies, toRemote, toClient>>

\* The select of this manager has two cases: a datagram, a tick.  The remote
\* stays silent in these runs.
UDPNextPlain ==
    \/ UDPBind
    \/ ReadLoopRead
    \/ ReadLoopReadRepeat
    \/ ReadLoopSend
    \/ ManagerMsgKnown
    \/ ManagerMsgNew
    \/ ManagerSweep
    \/ AdvanceTime
    \/ RebaseClock
    \/ \E sid \in Sids :
         \/ FwdRecv(sid)
         \/ FwdExit(sid)
         \/ FwdWriteOK(sid)
         \/ PlainFwdWriteErr(sid)
         \/ PlainRepTimeout(sid)
         \/ PlainRepReadErr(sid)

PlainForwarderStep(sid) ==
    FwdRecv(sid) \/ FwdExit(sid) \/ FwdWriteOK(sid) \/ PlainFwdWriteErr(sid)

PlainReplierStep(sid) == PlainRepTimeout(sid) \/ PlainRepReadErr(sid)

\* The scheduler runs every goroutine that can run, the manager's select takes
\* a case that stays ready, the clock does not stop.
PlainFairness ==
    /\ WF_vars(ReadLoopSend)
    /\ WF_vars(ManagerMsgKnown \/ ManagerMsgNew)
    /\ WF_vars(ManagerSweep)
    /\ WF_vars(AdvanceTime \/ RebaseClock)
    /\ \A sid \in Sids :
          WF_vars(PlainForwarderStep(sid)) /\ WF_vars(PlainReplierStep(sid))

SpecUDPPlain == InitUDPSteady /\ [][UDPNextPlain]_vars /\ PlainFairness

\* C34: in the manager without failure events, a session whose forwarder or
\* whose replier has returned is eventually removed from the table, also
\* when its client goes on sending.
C34_DeadSessionRemoved ==
    \A i \in Sids : TaskExited(i) ~> ~InTable(i)

\* ------------------------------------------------------------------------
\* RotateLogs: the log file is rotated on a timer and when it has grown
\* ------------------------------------------------------------------------
Logging == alive /\ proto = "log"

\* rotateOnce(logFile, currentFile, logger): Sync and Close the handle given,
\* rename the file under the path, open the path again and make the logger
\* write to the new handle.  It returns the new handle and an error: nil after
\* a rename that succeeded, the rename's error after one that failed, in which
\* case the caller keeps the handle it has.  An OpenFile that fails ends the
\* process (logger.Fatalf).
RotateOnce(renameOK, openOK) ==
    /\ nrot < MaxRotations
    /\ nrot' = nrot + 1
    /\ LET nh == nrot + 2
           closed == [handles EXCEPT ![currentFile].st = "closed"]
       IN IF ~openOK
          THEN /\ handles' = closed
               /\ pathFile' = IF renameOK THEN 0 ELSE pathFile
               /\ alive' = FALSE
               /\ logged' = {"Failed to open log file after rotation"}
               /\ UNCHANGED <<sizes, currentFile, loggerOut>>
          ELSE IF renameOK
          THEN /\ handles' = [closed EXCEPT ![nh] = [st |-> "open", file |-> nh]]
               /\ pathFile' = nh
               /\ sizes' = [sizes EXCEPT ![nh] = 1]
               /\ loggerOut' = nh
               /\ currentFile' = nh
               /\ logged' = {"Log file rotated successfully"}
               /\ alive' = alive
          ELSE /\ handles' = [closed EXCEPT ![nh] = [st |-> "open", file |-> pathFile]]
               /\ loggerOut' = nh
               /\ logged' = {"Error rotating logs"}
               /\ alive' = alive
               /\ UNCHANGED <<sizes, pathFile, currentFile>>

\* case <-rotationTicker.C
RotationTick ==
    /\ Logging
    /\ \E renameOK, openOK \in BOOLEAN : RotateOnce(renameOK, openOK)
    /\ UNCHANGED <<proto, listen, budget, nfaults, udpVars, tcpVars, parseVars>>

\* case <-sizeTicker.C: Stat on the handle kept; an error is logged and the
\* check is given up; a file of maxSizeBytes or more is rotated.
SizeTick ==
    /\ Logging
    /\ IF handles[currentFile].st # "open"
       THEN /\ logged' = {"Error stating log file for rotation"}
            /\ UNCHANGED <<alive, logVars>>
       ELSE IF sizes[handles[currentFile].file] >= SizeLimit
       THEN \E renameOK, openOK \in BOOLEAN : RotateOnce(renameOK, openOK)
       ELSE /\ logged' = {}
            /\ UNCHANGED <<alive, logVars>>
    /\ UNCHANGED <<proto, listen, budget, nfaults, udpVars, tcpVars, parseVars>>

\* logger.Printf from any goroutine of the program: a line is appended to the
\* file behind the logger's output.
LogWrite ==
    /\ Logging
    /\ handles[loggerOut].st = "open"
    /\ sizes[handles[loggerOut].file] < MaxLogSize
    /\ sizes' = [sizes EXCEPT ![handles[loggerOut].file] = @ + 1]
    /\ logged' = {}
    /\ UNCHANGED <<proto, listen, alive, budget, nfaults, udpVars, tcpVars, parseVars,
                   handles, pathFile, currentFile, loggerOut, nrot>>

InitRotate ==
    /\ InitState /\ ParseIdle /\ proto = "log"
    /\ budget = [datagrams |-> 0, horizon |-> 0, replies |-> 0, conns |-> 0, bytes |-> 0]

RotateNext == RotationTick \/ SizeTick \/ LogWrite

SpecRotate == InitRotate /\ [][RotateNext]_vars

\* C39: after every rotation attempt, whether its rename succeeded or failed,
\* the handle RotateLogs keeps is open and is the one the logger writes to.
C39_CurrentFileIsLoggerOutput ==
    (Logging /\ nrot > 0) =>
        /\ handles[currentFile].st = "open"
        /\ currentFile = loggerOut

====
